---------------------------- MODULE Spec2Model ----------------------------
(***************************************************************************)
(* A model of the EPUB structural resolution pipeline of epub_converter    *)
(* (converter.py, parser.py).                                              *)
(*                                                                         *)
(* Python strings are modelled as sequences of one-character strings, so   *)
(* that lower(), startswith(), substring tests, unquote(), the pathlib     *)
(* accessors and the regular expressions of the source are computed, not   *)
(* assumed.  A Python dict is a sequence of <<key, value>> pairs in        *)
(* insertion order.  None and the empty string are both the empty          *)
(* sequence where the source only tests truthiness.                        *)
(***************************************************************************)
EXTENDS Integers, Sequences, FiniteSets, TLC

(***************************************************************************)
(* Bounds of the model.                                                    *)
(***************************************************************************)
\* longest spine (number of content documents of a book)
MaxSpine == 4
\* longest markup handed to _fix_fake_anchors, counted in lexemes
MaxItems == 4

(***************************************************************************)
(* Python str operations.                                                  *)
(***************************************************************************)
UpperLetters ==
  <<"A","B","C","D","E","F","G","H","I","J","K","L","M",
    "N","O","P","Q","R","S","T","U","V","W","X","Y","Z">>

LowerLetters ==
  <<"a","b","c","d","e","f","g","h","i","j","k","l","m",
    "n","o","p","q","r","s","t","u","v","w","x","y","z">>

Digits == {"0","1","2","3","4","5","6","7","8","9"}

Whitespace == {" ", "\t", "\n", "\r"}

IsUpper(c) == \E i \in 1..26 : UpperLetters[i] = c

IsLowerLetter(c) == \E i \in 1..26 : LowerLetters[i] = c

\* one character of str.lower()
LowerChar(c) ==
  IF IsUpper(c) THEN LowerLetters[CHOOSE i \in 1..26 : UpperLetters[i] = c] ELSE c

\* str.lower()
Lower(s) == [i \in 1..Len(s) |-> LowerChar(s[i])]

\* str.startswith(p)
StartsWith(s, p) == Len(s) >= Len(p) /\ SubSeq(s, 1, Len(p)) = p

\* the positions at which p occurs in s
Occurrences(s, p) ==
  {i \in 1..(Len(s) - Len(p) + 1) : SubSeq(s, i, i + Len(p) - 1) = p}

\* p in s
Contains(s, p) == Len(p) = 0 \/ Occurrences(s, p) # {}

\* str.find(p) + 1: the first position of p in s, 0 when absent
Find(s, p) ==
  IF Occurrences(s, p) = {} THEN 0
  ELSE CHOOSE i \in Occurrences(s, p) : \A j \in Occurrences(s, p) : i <= j

\* str.rfind(p) + 1: the last position of p in s, 0 when absent
RFind(s, p) ==
  IF Occurrences(s, p) = {} THEN 0
  ELSE CHOOSE i \in Occurrences(s, p) : \A j \in Occurrences(s, p) : i >= j

\* s[i:] with i counted from 1
Drop(s, i) == SubSeq(s, i, Len(s))

\* str.strip()
RECURSIVE LStrip(_)
LStrip(s) == IF s # <<>> /\ s[1] \in Whitespace THEN LStrip(Tail(s)) ELSE s

RECURSIVE RStrip(_)
RStrip(s) ==
  IF s # <<>> /\ s[Len(s)] \in Whitespace THEN RStrip(SubSeq(s, 1, Len(s) - 1)) ELSE s

Strip(s) == RStrip(LStrip(s))

\* str.replace(old, new): every non-overlapping occurrence, left to right
RECURSIVE Replace(_, _, _)
Replace(s, old, new) ==
  IF s = <<>> THEN <<>>
  ELSE IF StartsWith(s, old) THEN new \o Replace(Drop(s, Len(old) + 1), old, new)
  ELSE <<s[1]>> \o Replace(Tail(s), old, new)

\* str.replace(old, new, 1): the first occurrence only
ReplaceFirst(s, old, new) ==
  IF Find(s, old) = 0 THEN s
  ELSE SubSeq(s, 1, Find(s, old) - 1) \o new \o Drop(s, Find(s, old) + Len(old))

\* s.split(sep, 1): <<s>> when sep is absent, else <<before, after>>
Split1(s, sep) ==
  IF Find(s, sep) = 0 THEN <<s>>
  ELSE <<SubSeq(s, 1, Find(s, sep) - 1), Drop(s, Find(s, sep) + Len(sep))>>

\* s.rsplit(sep, 1)[0]
RSplit1Head(s, sep) ==
  IF RFind(s, sep) = 0 THEN s ELSE SubSeq(s, 1, RFind(s, sep) - 1)

\* s.split(c) for a one-character separator c
RECURSIVE SplitOn(_, _)
SplitOn(s, c) ==
  IF Find(s, <<c>>) = 0 THEN <<s>>
  ELSE <<SubSeq(s, 1, Find(s, <<c>>) - 1)>> \o SplitOn(Drop(s, Find(s, <<c>>) + 1), c)

\* sep.join(parts)
RECURSIVE Join(_, _)
Join(parts, sep) ==
  IF parts = <<>> THEN <<>>
  ELSE IF Len(parts) = 1 THEN parts[1]
  ELSE parts[1] \o sep \o Join(Tail(parts), sep)

\* the elements of a sequence that satisfy Keep, in order
RECURSIVE SelectParts(_, _)
SelectParts(parts, drop) ==
  IF parts = <<>> THEN <<>>
  ELSE IF parts[1] \in drop THEN SelectParts(Tail(parts), drop)
  ELSE <<parts[1]>> \o SelectParts(Tail(parts), drop)

(***************************************************************************)
(* urllib.parse.unquote: every %XX escape is decoded.  The escapes the     *)
(* model's inputs use are listed; any other escape decodes to "?"          *)
(* (the byte is outside the modelled alphabet).                            *)
(***************************************************************************)
HexDigits == Digits \cup {"a","b","c","d","e","f","A","B","C","D","E","F"}

PercentDecoded(h1, h2) ==
  LET hh == Lower(<<h1, h2>>) IN
  CASE hh = <<"2","0">> -> " "
    [] hh = <<"2","3">> -> "#"
    [] hh = <<"2","e">> -> "."
    [] hh = <<"2","f">> -> "/"
    [] hh = <<"3","1">> -> "1"
    [] hh = <<"3","a">> -> ":"
    [] hh = <<"4","a">> -> "J"
    [] hh = <<"6","8">> -> "h"
    [] OTHER -> "?"

RECURSIVE unquote(_)
unquote(s) ==
  IF s = <<>> THEN <<>>
  ELSE IF s[1] = "%" /\ Len(s) >= 3 /\ s[2] \in HexDigits /\ s[3] \in HexDigits
       THEN <<PercentDecoded(s[2], s[3])>> \o unquote(Drop(s, 4))
  ELSE <<s[1]>> \o unquote(Tail(s))

(***************************************************************************)
(* pathlib (PurePosixPath): empty and "." components are dropped, ".." is  *)
(* kept; name is the last component, stem is name without its last suffix. *)
(***************************************************************************)
PathComponents(s) == SelectParts(SplitOn(s, "/"), {<<>>, <<".">>})

PathIsAbsolute(s) == s # <<>> /\ s[1] = "/"

\* Path(s).parts
PathParts(s) ==
  (IF PathIsAbsolute(s) THEN << <<"/">> >> ELSE <<>>) \o PathComponents(s)

\* Path(s).name
PathName(s) ==
  IF PathComponents(s) = <<>> THEN <<>>
  ELSE PathComponents(s)[Len(PathComponents(s))]

\* Path(s).stem
PathStem(s) ==
  LET name == PathName(s)
      i == RFind(name, <<".">>)
  IN IF 1 < i /\ i < Len(name) THEN SubSeq(name, 1, i - 1) ELSE name

\* Path(s).parent as a list of components (s relative)
PathParent(s) ==
  IF PathComponents(s) = <<>> THEN <<>>
  ELSE SubSeq(PathComponents(s), 1, Len(PathComponents(s)) - 1)

\* (dir / src).resolve() taken relative to the extraction root: the stack of
\* components after ".." is applied; Outside when the walk leaves the root
Outside == << <<"?", "outside">> >>

RECURSIVE ResolveFrom(_, _)
ResolveFrom(stack, comps) ==
  IF comps = <<>> THEN stack
  ELSE IF comps[1] = <<".", ".">>
       THEN IF stack = <<>> THEN Outside
            ELSE ResolveFrom(SubSeq(stack, 1, Len(stack) - 1), Tail(comps))
  ELSE ResolveFrom(Append(stack, comps[1]), Tail(comps))

\* Path.as_posix() of a path relative to the extraction root
AsPosix(comps) == IF comps = <<>> THEN <<".">> ELSE Join(comps, <<"/">>)

(***************************************************************************)
(* dict, in insertion order.                                               *)
(***************************************************************************)
DictValues(d) == {d[i][2] : i \in 1..Len(d)}

DictHas(d, k) == \E i \in 1..Len(d) : d[i][1] = k

\* d[k] for a key that is present
DictAt(d, k) == d[CHOOSE i \in 1..Len(d) : d[i][1] = k][2]

\* d.get(k): the value, or None (the empty sequence)
DictGet(d, k) == IF DictHas(d, k) THEN DictAt(d, k) ELSE <<>>


\* the value of the first item, in insertion order, among the items at the
\* positions hits (those whose key passes the test of the loop); None if none
DictFirst(d, hits) ==
  IF hits = {} THEN <<>> ELSE d[CHOOSE i \in hits : \A j \in hits : i <= j][2]

(***************************************************************************)
(* The URL patterns of _compile_regex_patterns.                            *)
(***************************************************************************)
SchemeChar(c) == IsLowerLetter(LowerChar(c)) \/ c \in Digits \/ c \in {".", "+", "-"}

\* data_url_pattern.match(s): ^(?:[a-z0-9.+-]+:|//), case-insensitive
data_url_pattern(s) ==
  \/ \E n \in 1..(Len(s) - 1) :
        /\ \A i \in 1..n : SchemeChar(s[i])
        /\ s[n + 1] = ":"
  \/ StartsWith(s, <<"/", "/">>)

\* static_url_pattern.match(s): ^./static, where . is any character but newline
static_url_pattern(s) ==
  /\ Len(s) >= 8
  /\ s[1] # "\n"
  /\ SubSeq(s, 2, 8) = <<"/","s","t","a","t","i","c">>

(***************************************************************************)
(* _process_content_file.replace_img_src_in_chapter: the src value the     *)
(* callback writes for one <img src=...> match of the document             *)
(* content_file_path (a path relative to the extraction root).  The        *)
(* is_cover flag the callback computes is never read afterwards and is     *)
(* left out.  raised: the callback raised (IndexError of src_parts[-1]).   *)
(***************************************************************************)
\* Method 1: resolve against the document's directory, look up the path
\* relative to the extraction root; any exception leaves new_src None
ImgMethod1(src, content_file_path, path_mapping) ==
  LET resolved == ResolveFrom(PathParent(content_file_path), PathComponents(src))
  IN IF PathIsAbsolute(src) \/ resolved = Outside THEN <<>>
     ELSE DictGet(path_mapping, AsPosix(resolved))

\* Method 4: the "normalized" spelling of src
ImgNormalizedSrc(src) ==
  Replace(Replace(Replace(src, <<"\\">>, <<"/">>),
                  <<".", ".", "\\">>, <<".", ".", "/">>),
          <<".", ".", "/", "/">>, <<".", ".", "/">>)

\* a if a is truthy, else b: the "if not new_src" guard of every later method
FirstTruthy(a, b) == IF a # <<>> THEN a ELSE b

\* Methods 1 to 6 in order, each tried only while new_src is still falsy
ImgMethods1to6(src, content_file_path, path_mapping) ==
  LET SameLower(key) == Lower(key) = Lower(src)
  IN FirstTruthy(ImgMethod1(src, content_file_path, path_mapping),
     FirstTruthy(DictGet(path_mapping, src),
     FirstTruthy(DictGet(path_mapping, PathName(src)),
     FirstTruthy(DictGet(path_mapping, ImgNormalizedSrc(src)),
     FirstTruthy(DictGet(path_mapping, PathStem(src)),
                 DictFirst(path_mapping,
                   {i \in 1..Len(path_mapping) : SameLower(path_mapping[i][1])}))))))

\* the test without data_url_pattern: data URIs only
ImgIsDataUri(src) == StartsWith(src, <<"d","a","t","a",":">>)

\* the data-URI / absolute-URL test made before any lookup
ImgIsPassthrough(src) == StartsWith(src, <<"d","a","t","a",":">>) \/ data_url_pattern(src)

\* Method 7 and the final fallback to the original src, given the outcome m6
\* of Methods 1 to 6
ImgMethod7(m6, src, path_mapping) ==
  LET src_parts == PathParts(src)
      LastPartIn(key) ==
        \E k \in 1..Len(PathParts(key)) : PathParts(key)[k] = src_parts[Len(src_parts)]
  IN IF m6 = <<>> /\ path_mapping # <<>> /\ src_parts = <<>>
     THEN [raised |-> TRUE, src |-> <<>>]
     ELSE [raised |-> FALSE,
           src |-> FirstTruthy(
             FirstTruthy(m6, DictFirst(path_mapping,
                           {i \in 1..Len(path_mapping) : LastPartIn(path_mapping[i][1])})),
             src)]

replace_img_src_in_chapter(src_val, content_file_path, path_mapping) ==
  IF ImgIsPassthrough(unquote(src_val)) THEN [raised |-> FALSE, src |-> src_val]
  ELSE ImgMethod7(ImgMethods1to6(unquote(src_val), content_file_path, path_mapping),
                  unquote(src_val), path_mapping)

(***************************************************************************)
(* fix_links_and_images.replace_a_href: the text that replaces one match   *)
(* tag_start quote href_val quote of link_href_pattern.                    *)
(***************************************************************************)
HrefEq == <<"h","r","e","f","=">>

ExternalSchemes ==
  { <<"h","t","t","p",":">>, <<"h","t","t","p","s",":">>,
    <<"m","a","i","l","t","o",":">>, <<"f","t","p",":">> }

\* href.lower().startswith(('http:', 'https:', 'mailto:', 'ftp:'))
HrefIsExternal(href) == \E p \in ExternalSchemes : StartsWith(Lower(href), p)

\* tag_start.rsplit('href=', 1)[0].strip()
HrefCleanedTag(tag_start) == Strip(RSplit1Head(tag_start, HrefEq))

\* the new href of an internal link, None when the link is to be removed
HrefResolve(href, content_id_mapping) ==
  LET parts == Split1(href, <<"#">>)
      file_part == parts[1]
      fragment == IF Len(parts) = 2 THEN parts[2] ELSE <<>>
      byPath == DictGet(content_id_mapping, file_part)
      mapped_chapter_id ==
        IF byPath # <<>> THEN byPath
        ELSE DictGet(content_id_mapping, PathName(file_part))
  IN IF file_part = <<>> /\ fragment # <<>>
     THEN IF fragment \in DictValues(content_id_mapping)
          THEN <<"#">> \o fragment ELSE <<>>
     ELSE IF file_part # <<>>
          THEN IF mapped_chapter_id # <<>> THEN <<"#">> \o mapped_chapter_id ELSE <<>>
     ELSE <<>>

\* replace_a_href without the data_url_pattern / static_url_pattern return
replace_a_href_resolving_all(tag_start, quote, href_val, content_id_mapping) ==
  LET href == unquote(href_val)
      new_href == HrefResolve(href, content_id_mapping)
  IN IF HrefIsExternal(href) THEN HrefCleanedTag(tag_start)
     ELSE IF new_href # <<>> THEN tag_start \o quote \o new_href \o quote
     ELSE HrefCleanedTag(tag_start)

replace_a_href(tag_start, quote, href_val, content_id_mapping) ==
  LET href == unquote(href_val)
      new_href == HrefResolve(href, content_id_mapping)
  IN IF HrefIsExternal(href) THEN HrefCleanedTag(tag_start)
     ELSE IF data_url_pattern(href) \/ static_url_pattern(href)
          THEN tag_start \o quote \o href_val \o quote
     ELSE IF new_href # <<>> THEN tag_start \o quote \o new_href \o quote
     ELSE HrefCleanedTag(tag_start)

(***************************************************************************)
(* _fix_fake_anchors.  The two regular expressions are <a\b[^>]*> (the     *)
(* re.sub over opening tags) and (</?a\b[^>]*>) (the re.split into         *)
(* tokens), both case-insensitive.                                         *)
(***************************************************************************)
\* \w of the re module, for the characters of the model
WordChar(c) == IsLowerLetter(LowerChar(c)) \/ c \in Digits \/ c = "_"

\* the position of the ">" that ends an anchor tag starting at position i of s,
\* 0 if none starts there; closing tags match only when withClosing
AnchorTagEnd(s, i, withClosing) ==
  LET j == IF withClosing /\ i + 1 <= Len(s) /\ s[i + 1] = "/" THEN i + 2 ELSE i + 1
      ends == {e \in (j + 1)..Len(s) : s[e] = ">"}
  IN IF /\ i <= Len(s) /\ s[i] = "<"
        /\ j <= Len(s) /\ LowerChar(s[j]) = "a"
        /\ j + 1 <= Len(s) /\ ~WordChar(s[j + 1])
        /\ ends # {}
     THEN CHOOSE e \in ends : \A f \in ends : e <= f
     ELSE 0

\* the start of the leftmost anchor tag of s, 0 if there is none
FirstAnchorTag(s, withClosing) ==
  LET starts == {i \in 1..Len(s) : AnchorTagEnd(s, i, withClosing) # 0}
  IN IF starts = {} THEN 0 ELSE CHOOSE i \in starts : \A j \in starts : i <= j

\* token.replace('<a', '<span', 1).replace('<A', '<span', 1)
AnchorToSpan(tag) ==
  ReplaceFirst(ReplaceFirst(tag, <<"<", "a">>, <<"<", "s", "p", "a", "n">>),
               <<"<", "A">>, <<"<", "s", "p", "a", "n">>)

\* replace_tag: an opening tag without 'href=' or 'href =' becomes a span
replace_tag(tag) ==
  IF \/ Contains(Lower(tag), <<"h","r","e","f","=">>)
     \/ Contains(Lower(tag), <<"h","r","e","f"," ","=">>)
  THEN tag
  ELSE AnchorToSpan(tag)

\* re.sub(r'<a\b[^>]*>', replace_tag, content, flags=re.IGNORECASE)
RECURSIVE SubOpeningTags(_)
SubOpeningTags(content) ==
  LET i == FirstAnchorTag(content, FALSE)
      e == AnchorTagEnd(content, i, FALSE)
  IN IF i = 0 THEN content
     ELSE SubSeq(content, 1, i - 1) \o replace_tag(SubSeq(content, i, e))
            \o SubOpeningTags(Drop(content, e + 1))

\* re.split(r'(</?a\b[^>]*>)', content, flags=re.IGNORECASE) without the empty
\* tokens, which the loop skips
RECURSIVE AnchorTokens(_)
AnchorTokens(content) ==
  LET i == FirstAnchorTag(content, TRUE)
      e == AnchorTagEnd(content, i, TRUE)
      text == SubSeq(content, 1, i - 1)
  IN IF content = <<>> THEN <<>>
     ELSE IF i = 0 THEN <<content>>
     ELSE (IF text = <<>> THEN <<>> ELSE <<text>>)
            \o <<SubSeq(content, i, e)>> \o AnchorTokens(Drop(content, e + 1))

\* the loop over the tokens: result so far and the stack of "was converted" flags
RECURSIVE AnchorLoop(_, _, _)
AnchorLoop(tokens, stack, result) ==
  IF tokens = <<>> THEN result
  ELSE LET token == tokens[1]
           rest == Tail(tokens)
       IN IF StartsWith(Lower(token), <<"<", "a">>)
          THEN IF Contains(Lower(token), <<"h","r","e","f">>)
               THEN AnchorLoop(rest, Append(stack, FALSE), result \o token)
               ELSE AnchorLoop(rest, Append(stack, TRUE), result \o AnchorToSpan(token))
          ELSE IF StartsWith(Lower(token), <<"<", "/", "a">>)
          THEN IF stack # <<>>
               THEN IF stack[Len(stack)]
                    THEN AnchorLoop(rest, SubSeq(stack, 1, Len(stack) - 1),
                                    result \o <<"<","/","s","p","a","n",">">>)
                    ELSE AnchorLoop(rest, SubSeq(stack, 1, Len(stack) - 1),
                                    result \o token)
               ELSE AnchorLoop(rest, stack, result \o token)
          ELSE AnchorLoop(rest, stack, result \o token)

_fix_fake_anchors(content) ==
  AnchorLoop(AnchorTokens(SubOpeningTags(content)), <<>>, <<>>)

(***************************************************************************)
(* convert_single_epub: building the IdentifierMap (content_id_mapping).   *)
(***************************************************************************)
\* str(n), the decimal digits of a natural number
DigitChar(n) ==
  CASE n = 0 -> "0" [] n = 1 -> "1" [] n = 2 -> "2" [] n = 3 -> "3" [] n = 4 -> "4"
    [] n = 5 -> "5" [] n = 6 -> "6" [] n = 7 -> "7" [] n = 8 -> "8" [] n = 9 -> "9"

RECURSIVE Decimal(_)
Decimal(n) ==
  IF n < 10 THEN <<DigitChar(n)>> ELSE Append(Decimal(n \div 10), DigitChar(n % 10))

\* f"page{i:02d}"
PageId(i) ==
  <<"p","a","g","e">> \o (IF i < 10 THEN <<"0">> ELSE <<>>) \o Decimal(i)

\* content_id_mapping[k] = v: a present key keeps its place and takes the new
\* value, a new key is appended
DictSet(d, k, v) ==
  IF DictHas(d, k)
  THEN [i \in 1..Len(d) |-> IF d[i][1] = k THEN <<k, v>> ELSE d[i]]
  ELSE Append(d, <<k, v>>)

\* the registration without content_id_mapping[content_file.name] = chapter_id
IdMapKeysWithoutName(content_file) ==
  << unquote(content_file),
     PathStem(content_file),
     <<"T","e","x","t","/">> \o PathName(content_file),
     <<"O","E","B","P","S","/">> \o PathName(content_file) >>

\* the keys registered for one content file, in the order of the assignments
IdMapKeys(content_file) ==
  << unquote(content_file),
     PathName(content_file),
     PathStem(content_file),
     <<"T","e","x","t","/">> \o PathName(content_file),
     <<"O","E","B","P","S","/">> \o PathName(content_file) >>

RECURSIVE IdMapRegister(_, _, _)
IdMapRegister(d, keys, chapter_id) ==
  IF keys = <<>> THEN d
  ELSE IdMapRegister(DictSet(d, keys[1], chapter_id), Tail(keys), chapter_id)

\* the loop over enumerate(content_files, 1), from ordinal i on
RECURSIVE BuildContentIdMapping(_, _, _)
BuildContentIdMapping(d, content_files, i) ==
  IF i > Len(content_files) THEN d
  ELSE BuildContentIdMapping(
         IdMapRegister(d, IdMapKeys(content_files[i]), PageId(i)), content_files, i + 1)

(***************************************************************************)
(* _map_toc_to_chapters and _find_closest_chapter_match.  A TOC item is    *)
(* [label, href, children]; an item without a 'children' key has           *)
(* children = <<>>.                                                        *)
(***************************************************************************)
\* _find_closest_chapter_match without the partial matching: None for every
\* file path
NoClosestChapterMatch(file_path, content_id_mapping) == <<>>

_find_closest_chapter_match(file_path, content_id_mapping) ==
  LET filename == Lower(PathName(file_path))
      stem == Lower(PathStem(file_path))
      Partial(key) ==
        \/ Contains(Lower(key), filename)
        \/ Contains(Lower(key), stem)
        \/ Contains(filename, Lower(key))
        \/ Contains(stem, Lower(key))
  IN DictFirst(content_id_mapping,
               {i \in 1..Len(content_id_mapping) : Partial(content_id_mapping[i][1])})

\* process_toc_item with the verbatim lookup only
TocChapterIdVerbatim(original_href, content_id_mapping) ==
  DictGet(content_id_mapping, Split1(original_href, <<"#">>)[1])

\* process_toc_item trying the bare filename before the verbatim file path
TocChapterIdFilenameFirst(original_href, content_id_mapping) ==
  LET file_path == Split1(original_href, <<"#">>)[1]
      exact ==
        IF DictHas(content_id_mapping, PathName(file_path))
        THEN DictAt(content_id_mapping, PathName(file_path))
        ELSE IF DictHas(content_id_mapping, file_path)
        THEN DictAt(content_id_mapping, file_path)
        ELSE IF DictHas(content_id_mapping, unquote(file_path))
        THEN DictAt(content_id_mapping, unquote(file_path))
        ELSE <<>>
  IN IF exact # <<>> THEN exact
     ELSE _find_closest_chapter_match(file_path, content_id_mapping)

\* the chapter id process_toc_item finds for an href, None if there is none
TocChapterId(original_href, content_id_mapping) ==
  LET file_path == Split1(original_href, <<"#">>)[1]
      exact ==
        IF DictHas(content_id_mapping, file_path)
        THEN DictAt(content_id_mapping, file_path)
        ELSE IF DictHas(content_id_mapping, PathName(file_path))
        THEN DictAt(content_id_mapping, PathName(file_path))
        ELSE IF DictHas(content_id_mapping, unquote(file_path))
        THEN DictAt(content_id_mapping, unquote(file_path))
        ELSE <<>>
  IN IF exact # <<>> THEN exact
     ELSE _find_closest_chapter_match(file_path, content_id_mapping)

RECURSIVE _map_toc_to_chapters(_, _)
_map_toc_to_chapters(toc, content_id_mapping) ==
  IF toc = <<>> THEN <<>>
  ELSE LET item == toc[1]
           chapter_id == TocChapterId(item.href, content_id_mapping)
           mapped ==
             IF chapter_id # <<>>
             THEN << [label |-> item.label,
                      href |-> <<"#">> \o chapter_id,
                      children |-> _map_toc_to_chapters(item.children, content_id_mapping)] >>
             ELSE <<>>
       IN mapped \o _map_toc_to_chapters(Tail(toc), content_id_mapping)

(***************************************************************************)
(* EPUBParser: the parts of parser.py that convert_single_epub calls.      *)
(***************************************************************************)
\* _should_filter_content_file(href, filtered_hrefs)
_should_filter_content_file(href, filtered_hrefs) ==
  /\ href # <<>>
  /\ filtered_hrefs # <<>>
  /\ \E k \in 1..Len(filtered_hrefs) :
        \/ Strip(Lower(href)) = Strip(Lower(filtered_hrefs[k]))
        \/ Lower(PathName(href)) = Lower(PathName(filtered_hrefs[k]))
        \/ Lower(PathStem(href)) = Lower(PathStem(filtered_hrefs[k]))

\* find_content_files with a parsable package document at the extraction root:
\* the spine documents that are not filtered, in spine order
RECURSIVE find_content_files(_, _)
find_content_files(spine, filtered_hrefs) ==
  IF spine = <<>> THEN <<>>
  ELSE (IF filtered_hrefs # <<>> /\ _should_filter_content_file(spine[1], filtered_hrefs)
        THEN <<>> ELSE <<spine[1]>>)
       \o find_content_files(Tail(spine), filtered_hrefs)

\* generate_basic_toc: one entry per content file, from ordinal i on; the label
\* is "Chapter i" (the title text taken from the document is not modelled)
RECURSIVE generate_basic_toc(_, _)
generate_basic_toc(content_files, i) ==
  IF i > Len(content_files) THEN <<>>
  ELSE << [label |-> <<"C","h","a","p","t","e","r"," ">> \o Decimal(i),
           href |-> <<"#">> \o PageId(i),
           children |-> <<>>] >>
       \o generate_basic_toc(content_files, i + 1)

\* what find_and_parse_toc returns: a 2-tuple without a package document, else
\* (toc, book_meta, filtered_hrefs); book_meta is not modelled
find_and_parse_toc(opf_file, nav_toc, nav_filtered) ==
  IF ~opf_file THEN << <<>>, <<>> >>
  ELSE IF nav_toc # <<>> THEN <<nav_toc, <<>>, nav_filtered>>
  ELSE << <<>>, <<>>, <<>> >>

(***************************************************************************)
(* The books of the model.  The package document sits at the extraction    *)
(* root, so a manifest href is a path relative to the extraction root.     *)
(* A document is reduced to the src values of its <img> elements and the   *)
(* href values of its <a> elements, in document order.                     *)
(***************************************************************************)
TextCh01 == <<"T","e","x","t","/","c","h","0","1",".","x","h","t","m","l">>

OebpsCh01 == <<"O","E","B","P","S","/","c","h","0","1",".","x","h","t","m","l">>

OebpsCh02 == <<"O","E","B","P","S","/","c","h","0","2",".","x","h","t","m","l">>

CoverDoc == <<"c","o","v","e","r",".","x","h","t","m","l">>

Files == {TextCh01, OebpsCh01, OebpsCh02, CoverDoc}

\* the src values of the <img> elements of a document
DocImgs(file) ==
  CASE file = TextCh01 -> << <<".",".","/","I","m","a","g","e","s","/","p","i","c",".","j","p","g">> >>
    [] file = OebpsCh01 -> << <<"h","t","t","p",":","/","/","h","/","p","i","c",".","j","p","g">>, <<".",".","/","I","m","a","g","e","s","/","p","i","c",".","J","P","G">> >>
    [] file = OebpsCh02 -> << <<>> >>
    [] file = CoverDoc -> << <<"I","m","a","g","e","s","/","p","i","c",".","j","p","g">> >>
    [] OTHER -> << >>

\* the href values of the <a> elements of a document
DocLinks(file) ==
  CASE file = TextCh01 -> << <<"c","h","0","2",".","x","h","t","m","l","#","s","1">>, <<"h","t","t","p",":","/","/","x",".","o","r","g","/","a">> >>
    [] file = OebpsCh01 -> << <<"#","p","a","g","e","0","1">>, <<"n","o","t","e","s",".","x","h","t","m","l">> >>
    [] file = OebpsCh02 -> << <<".",".","/","T","e","x","t","/","c","h","0","1",".","x","h","t","m","l">> >>
    [] file = CoverDoc -> << >>
    [] OTHER -> << >>

\* the reading orders of the documents
SpineOrders ==
  { <<TextCh01, OebpsCh01, OebpsCh02, CoverDoc>>,
    <<OebpsCh01, TextCh01, CoverDoc, OebpsCh02>>,
    <<CoverDoc, OebpsCh02, TextCh01, OebpsCh01>>,
    <<OebpsCh02, CoverDoc, OebpsCh01, TextCh01>> }

Min(a, b) == IF a <= b THEN a ELSE b

\* the spines: the opening entries of a reading order, at most MaxSpine of them
Spines ==
  {SubSeq(s, 1, n) : s \in SpineOrders, n \in 0..Min(MaxSpine, Cardinality(Files))}

\* the PathMapping the image collaborator returns: no image, or one image
\* registered under its path variants
PathMappings ==
  { <<>>,
    << << <<"I","m","a","g","e","s","/","p","i","c",".","j","p","g">>, <<"/","i","m","a","g","e","s","/","x","0","1",".","a","v","i","f">> >>,
       << <<"p","i","c",".","j","p","g">>, <<"/","i","m","a","g","e","s","/","x","0","1",".","a","v","i","f">> >>,
       << <<".",".","/","I","m","a","g","e","s","/","p","i","c",".","j","p","g">>, <<"/","i","m","a","g","e","s","/","x","0","1",".","a","v","i","f">> >>,
       << <<".","/","I","m","a","g","e","s","/","p","i","c",".","j","p","g">>, <<"/","i","m","a","g","e","s","/","x","0","1",".","a","v","i","f">> >> >> }

\* the hrefs parse_nav_xhtml and parse_ncx_toc produce: the href joined to the
\* package directory, with the temporary directory prefix removed
TocItem(label, href, children) == [label |-> label, href |-> href, children |-> children]

NavTocs ==
  { <<>>,
    << TocItem(<<"O","n","e">>, <<"e","x","t","r","a","c","t","e","d","/","c","h","0","1",".","x","h","t","m","l">>, <<>>) >>,
    << TocItem(<<"O","n","e">>, <<"e","x","t","r","a","c","t","e","d","/","T","e","x","t","/","c","h","0","1",".","x","h","t","m","l">>,
               << TocItem(<<"T","w","o">>, <<"e","x","t","r","a","c","t","e","d","/","O","E","B","P","S","/","c","h","0","2",".","x","h","t","m","l","#","s","1">>, <<>>) >>),
       TocItem(<<"N","o","t","e","s">>, <<"e","x","t","r","a","c","t","e","d","/","n","o","t","e","s",".","x","h","t","m","l">>, <<>>) >>,
    << TocItem(<<"N","o","t","e","s">>, <<"e","x","t","r","a","c","t","e","d","/","n","o","t","e","s",".","x","h","t","m","l">>,
               << TocItem(<<"O","n","e">>, <<"e","x","t","r","a","c","t","e","d","/","T","e","x","t","/","c","h","0","1",".","x","h","t","m","l">>, <<>>) >>) >>,
    << TocItem(<<"T","w","o">>, <<"e","x","t","r","a","c","t","e","d","/","O","E","B","P","S","/","c","h","0","2",".","x","h","t","m","l","#","s","1">>, <<>>),
       TocItem(<<"C","o","v","e","r">>, <<"e","x","t","r","a","c","t","e","d","/","c","o","v","e","r",".","x","h","t","m","l">>, <<>>) >> }

\* the filtered-href sets: nothing filtered, or one boilerplate entry
NavFiltered == { <<>>, << <<"e","x","t","r","a","c","t","e","d","/","O","E","B","P","S","/","c","h","0","2",".","x","h","t","m","l">> >> }

Books ==
  {b \in [has_opf : BOOLEAN, spine : Spines, nav_toc : NavTocs,
          nav_filtered : NavFiltered, path_mapping : PathMappings] :
     /\ b.nav_toc = <<>> => b.nav_filtered = <<>>
     /\ ~b.has_opf => b.spine = <<>> /\ b.nav_toc = <<>>}

(***************************************************************************)
(* _process_content_file and combine_and_generate_html.                    *)
(***************************************************************************)
\* if len(content_files) <= 3: the documents are processed sequentially
SequentialLimit == 3

\* the chapter container of the i-th content file as a sequence of one record,
\* or None (the empty sequence) when rewriting an <img> raised
_process_content_file(i, content_file_path, path_mapping) ==
  LET imgs == DocImgs(content_file_path)
      new == [k \in 1..Len(imgs) |->
                replace_img_src_in_chapter(imgs[k], content_file_path, path_mapping)]
  IN IF \E k \in 1..Len(imgs) : new[k].raised THEN <<>>
     ELSE << [i |-> i,
              id |-> PageId(i),
              imgs |-> [k \in 1..Len(imgs) |-> new[k].src],
              links |-> DocLinks(content_file_path)] >>

\* the sequential branch: the loop over enumerate(content_files, 1)
RECURSIVE CombineSequential(_, _, _)
CombineSequential(content_files, path_mapping, i) ==
  IF i > Len(content_files) THEN <<>>
  ELSE _process_content_file(i, content_files[i], path_mapping)
       \o CombineSequential(content_files, path_mapping, i + 1)

\* results.keys() as the dict yields them: in insertion (completion) order
KeysInCompletionOrder(results) == [k \in 1..Len(results) |-> results[k][1]]

\* sorted(results.keys()) for the dict results of <<ordinal, container>>
RECURSIVE SortedKeys(_)
SortedKeys(results) ==
  IF results = <<>> THEN <<>>
  ELSE LET keys == {results[k][1] : k \in 1..Len(results)}
           least == CHOOSE m \in keys : \A n \in keys : m <= n
       IN <<least>> \o SortedKeys(SelectSeq(results, LAMBDA r : r[1] # least))

\* [results[i] for i in sorted(results.keys())]
CombineParallel(results) ==
  [k \in 1..Len(results) |-> DictAt(results, SortedKeys(results)[k])]

\* fix_links_and_images over the combined document: every <a href> match is
\* replaced by replace_a_href
ATagStart == <<"<","a"," ","h","r","e","f","=">>

fix_links_and_images(body, content_id_mapping) ==
  [c \in 1..Len(body) |->
     [body[c] EXCEPT !.links =
        [k \in 1..Len(body[c].links) |->
           replace_a_href(ATagStart, <<"\"">>, body[c].links[k], content_id_mapping)]]]

(***************************************************************************)
(* State.  convert_single_epub runs as the steps of pc; call and ret hold  *)
(* the arguments and the return value of a function applied on its own.    *)
(***************************************************************************)
VARIABLES
  book,                \* the EPUB being converted
  pc,                  \* the statement convert_single_epub has reached
  opf_file,            \* find_opf_file found a package document
  toc,                 \* metadata['toc']
  filtered_hrefs,      \* the filtered-href set handed to find_content_files
  content_files,       \* the surviving spine documents, in reading order
  path_mapping,        \* the PathMapping
  content_id_mapping,  \* the IdentifierMap
  pending,             \* ordinals whose worker task has not finished
  completed,           \* finished futures as_completed has not yielded yet
  results,             \* the dict results of the parallel branch
  combined_body,       \* the chapter containers, as concatenated
  final_html,          \* the document written to index.html
  call,                \* arguments of the function under study
  ret,                 \* its return value, <<>> before the call
  batch_pc,            \* the statement _convert_parallel has reached
  run,                 \* per submitted EPUB, its convert_single_epub call
  converter,           \* the attributes of each EPUBConverter object
  extracted,           \* the temporary directories holding "extracted"
  yielded,             \* the futures as_completed has yielded
  completed_count,     \* completed_count of _convert_parallel
  failed_count         \* failed_count of _convert_parallel

pipelineVars ==
  <<book, pc, opf_file, toc, filtered_hrefs, content_files, path_mapping,
    content_id_mapping, pending, completed, results, combined_body, final_html>>

callVars == <<call, ret>>

batchVars ==
  <<batch_pc, run, converter, extracted, yielded, completed_count, failed_count>>

vars == <<pipelineVars, callVars, batchVars>>

NoBook ==
  [has_opf |-> FALSE, spine |-> <<>>, nav_toc |-> <<>>, nav_filtered |-> <<>>,
   path_mapping |-> <<>>]

PipelineIdle ==
  /\ book = NoBook
  /\ pc = "idle"
  /\ opf_file = FALSE
  /\ toc = <<>>
  /\ filtered_hrefs = <<>>
  /\ content_files = <<>>
  /\ path_mapping = <<>>
  /\ content_id_mapping = <<>>
  /\ pending = {}
  /\ completed = <<>>
  /\ results = <<>>
  /\ combined_body = <<>>
  /\ final_html = <<>>

CallIdle == call = <<>> /\ ret = <<>>

BatchIdle ==
  /\ batch_pc = "idle"
  /\ run = <<>>
  /\ converter = <<>>
  /\ extracted = {}
  /\ yielded = {}
  /\ completed_count = 0
  /\ failed_count = 0

Init ==
  /\ book \in Books
  /\ pc = "start"
  /\ opf_file = FALSE
  /\ toc = <<>>
  /\ filtered_hrefs = <<>>
  /\ content_files = <<>>
  /\ path_mapping = <<>>
  /\ content_id_mapping = <<>>
  /\ pending = {}
  /\ completed = <<>>
  /\ results = <<>>
  /\ combined_body = <<>>
  /\ final_html = <<>>
  /\ CallIdle
  /\ BatchIdle

(***************************************************************************)
(* convert_single_epub, statement by statement.                            *)
(***************************************************************************)
\* parser.extract_epub and parser.find_opf_file
FindOpfFile ==
  /\ pc = "start"
  /\ opf_file' = book.has_opf
  /\ pc' = "parse_toc"
  /\ UNCHANGED <<book, toc, filtered_hrefs, content_files, path_mapping,
                 content_id_mapping, pending, completed, results, combined_body,
                 final_html, callVars, batchVars>>

\* toc, metadata, filtered_hrefs = parser.find_and_parse_toc(opf_file, extract_dir):
\* unpacking a tuple that has not three elements raises ValueError
FindAndParseToc ==
  /\ pc = "parse_toc"
  /\ LET returned == find_and_parse_toc(opf_file, book.nav_toc, book.nav_filtered)
     IN IF Len(returned) # 3
        THEN /\ pc' = "raised"
             /\ UNCHANGED <<toc, filtered_hrefs>>
        ELSE /\ toc' = returned[1]
             /\ filtered_hrefs' = returned[3]
             /\ pc' = "content_files"
  /\ UNCHANGED <<book, opf_file, content_files, path_mapping, content_id_mapping,
                 pending, completed, results, combined_body, final_html, callVars, batchVars>>

\* content_files = parser.find_content_files(opf_file, extract_dir, filtered_hrefs)
FindContentFiles ==
  /\ pc = "content_files"
  /\ opf_file
  /\ content_files' = find_content_files(book.spine, filtered_hrefs)
  /\ pc' = "images"
  /\ UNCHANGED <<book, opf_file, toc, filtered_hrefs, path_mapping,
                 content_id_mapping, pending, completed, results, combined_body,
                 final_html, callVars, batchVars>>

\* the image collaborator returns the PathMapping
ProcessImages ==
  /\ pc = "images"
  /\ path_mapping' = book.path_mapping
  /\ pc' = "basic_toc"
  /\ UNCHANGED <<book, opf_file, toc, filtered_hrefs, content_files,
                 content_id_mapping, pending, completed, results, combined_body,
                 final_html, callVars, batchVars>>

\* if not toc: toc = parser.generate_basic_toc(content_files, extract_dir)
GenerateBasicToc ==
  /\ pc = "basic_toc"
  /\ toc' = IF toc = <<>> THEN generate_basic_toc(content_files, 1) ELSE toc
  /\ pc' = "id_mapping"
  /\ UNCHANGED <<book, opf_file, filtered_hrefs, content_files, path_mapping,
                 content_id_mapping, pending, completed, results, combined_body,
                 final_html, callVars, batchVars>>

\* the loop that fills content_id_mapping
BuildIdMapping ==
  /\ pc = "id_mapping"
  /\ content_id_mapping' = BuildContentIdMapping(<<>>, content_files, 1)
  /\ pc' = "map_toc"
  /\ UNCHANGED <<book, opf_file, toc, filtered_hrefs, content_files, path_mapping,
                 pending, completed, results, combined_body, final_html, callVars, batchVars>>

\* if toc: toc = self._map_toc_to_chapters(toc, content_id_mapping)
MapTocToChapters ==
  /\ pc = "map_toc"
  /\ toc' = IF toc # <<>> THEN _map_toc_to_chapters(toc, content_id_mapping) ELSE toc
  /\ pc' = "combine"
  /\ UNCHANGED <<book, opf_file, filtered_hrefs, content_files, path_mapping,
                 content_id_mapping, pending, completed, results, combined_body,
                 final_html, callVars, batchVars>>

\* combine_and_generate_html, at most 3 content files: the sequential loop
CombineSmall ==
  /\ pc = "combine"
  /\ Len(content_files) <= SequentialLimit
  /\ combined_body' = CombineSequential(content_files, path_mapping, 1)
  /\ pc' = "fix_links"
  /\ UNCHANGED <<book, opf_file, toc, filtered_hrefs, content_files, path_mapping,
                 content_id_mapping, pending, completed, results, final_html,
                 callVars, batchVars>>

\* combine_and_generate_html, more content files: every task is submitted
SubmitTasks ==
  /\ pc = "combine"
  /\ Len(content_files) > SequentialLimit
  /\ pending' = 1..Len(content_files)
  /\ pc' = "pool"
  /\ UNCHANGED <<book, opf_file, toc, filtered_hrefs, content_files, path_mapping,
                 content_id_mapping, completed, results, combined_body, final_html,
                 callVars, batchVars>>

\* a worker finishes _process_content_file for ordinal i: its future completes
TaskDone(i) ==
  /\ pc = "pool"
  /\ i \in pending
  /\ pending' = pending \ {i}
  /\ completed' =
       Append(completed, <<i, _process_content_file(i, content_files[i], path_mapping)>>)
  /\ UNCHANGED <<book, pc, opf_file, toc, filtered_hrefs, content_files, path_mapping,
                 content_id_mapping, results, combined_body, final_html, callVars, batchVars>>

\* one iteration of for future in as_completed(future_to_file)
CollectResult ==
  /\ pc = "pool"
  /\ completed # <<>>
  /\ LET i == Head(completed)[1]
         result == Head(completed)[2]
     IN results' = IF result # <<>> THEN DictSet(results, i, result[1]) ELSE results
  /\ completed' = Tail(completed)
  /\ UNCHANGED <<book, pc, opf_file, toc, filtered_hrefs, content_files, path_mapping,
                 content_id_mapping, pending, combined_body, final_html, callVars, batchVars>>

\* every future has been yielded: the results are put in order
JoinPool ==
  /\ pc = "pool"
  /\ pending = {}
  /\ completed = <<>>
  /\ combined_body' = CombineParallel(results)
  /\ pc' = "fix_links"
  /\ UNCHANGED <<book, opf_file, toc, filtered_hrefs, content_files, path_mapping,
                 content_id_mapping, pending, completed, results, final_html,
                 callVars, batchVars>>

\* get_html_template, fix_links_and_images and the write of index.html
WriteOutput ==
  /\ pc = "fix_links"
  /\ final_html' =
       << [body |-> fix_links_and_images(combined_body, content_id_mapping),
           toc |-> toc] >>
  /\ pc' = "done"
  /\ UNCHANGED <<book, opf_file, toc, filtered_hrefs, content_files, path_mapping,
                 content_id_mapping, pending, completed, results, combined_body,
                 callVars, batchVars>>

Next ==
  \/ FindOpfFile
  \/ FindAndParseToc
  \/ FindContentFiles
  \/ ProcessImages
  \/ GenerateBasicToc
  \/ BuildIdMapping
  \/ MapTocToChapters
  \/ CombineSmall
  \/ SubmitTasks
  \/ \E i \in 1..MaxSpine : TaskDone(i)
  \/ CollectResult
  \/ JoinPool
  \/ WriteOutput

Spec == Init /\ [][Next]_vars

(***************************************************************************)
(* replace_img_src_in_chapter applied to one <img> match.                  *)
(***************************************************************************)
ImgSrcs ==
  { <<".",".","/","I","m","a","g","e","s","/","p","i","c",".","j","p","g">>, <<".",".","/","I","m","a","g","e","s","/","p","i","c",".","J","P","G">>, <<"I","m","a","g","e","s","/","p","i","c",".","j","p","g">>, <<"p","i","c",".","j","p","g">>,
    <<"I","M","A","G","E","S","/","P","I","C",".","J","P","G">>, <<"I","m","a","g","e","s","/","p","i","c","%","2","e","j","p","g">>, <<"m","i","s","s","i","n","g",".","p","n","g">>, <<>>,
    <<"h","t","t","p",":","/","/","h","/","p","i","c",".","j","p","g">>, <<"H","T","T","P","S",":","/","/","h","/","p","i","c",".","j","p","g">>, <<"/","/","h","/","p","i","c",".","j","p","g">>,
    <<"d","a","t","a",":","i","m","a","g","e","/","p","n","g",";","b","a","s","e","6","4",",","A","A">>, <<"f","i","l","e",":","/","/","/","p","i","c",".","j","p","g">>, <<"h","t","t","p","%","3","A","/","/","h","/","p","i","c",".","j","p","g">> }

\* PathMappings, a PathMapping whose only key is Images/pic.jpg, and one that
\* has the URLs of the <img> elements among its keys
ImgPathMappings ==
  PathMappings \cup
  { << <<<<"I","m","a","g","e","s","/","p","i","c",".","j","p","g">>, <<"/","i","m","a","g","e","s","/","x","0","1",".","a","v","i","f">>>> >>,
    << <<<<"h","t","t","p",":","/","/","h","/","p","i","c",".","j","p","g">>, <<"/","i","m","a","g","e","s","/","x","0","2",".","a","v","i","f">>>>,
       <<<<"/","/","h","/","p","i","c",".","j","p","g">>, <<"/","i","m","a","g","e","s","/","x","0","2",".","a","v","i","f">>>>,
       <<<<"p","i","c",".","j","p","g">>, <<"/","i","m","a","g","e","s","/","x","0","1",".","a","v","i","f">>>> >> }

ImgCalls ==
  [src_val : ImgSrcs, content_file_path : Files, path_mapping : ImgPathMappings]

InitImg ==
  /\ PipelineIdle
  /\ BatchIdle
  /\ call \in {<<c>> : c \in ImgCalls}
  /\ ret = <<>>

\* re.sub calls replace_img_src_in_chapter for the match
ReplaceImgSrc ==
  /\ ret = <<>>
  /\ ret' = << replace_img_src_in_chapter(
                 call[1].src_val, call[1].content_file_path, call[1].path_mapping) >>
  /\ UNCHANGED <<pipelineVars, batchVars, call>>

NextImg == ReplaceImgSrc

SpecImg == InitImg /\ [][NextImg]_vars

(***************************************************************************)
(* replace_a_href applied to one <a href=...> match.                       *)
(***************************************************************************)
Hrefs ==
  { <<"h","t","t","p",":","/","/","x",".","o","r","g","/","a">>, <<"h","t","t","p","s",":","/","/","x",".","o","r","g","/">>, <<"H","T","T","P",":","/","/","X",".","O","R","G","/">>, <<"m","a","i","l","t","o",":","a","@","b",".","c">>,
    <<"f","t","p",":","/","/","h","/","f">>, <<"t","e","l",":","1","2","3">>, <<"j","a","v","a","s","c","r","i","p","t",":","v","o","i","d","(","0",")">>, <<"/","/","c","d","n",".","x","/","a">>,
    <<"d","a","t","a",":","t","e","x","t","/","p","l","a","i","n",",","h","i">>, <<"h","t","t","p","%","3","A","/","/","x",".","o","r","g","/","a">>, <<".","/","s","t","a","t","i","c","/","s","c","r","i","p","t",".","j","s">>,
    <<"#","p","a","g","e","0","1">>, <<"#","n","o","t","e","1">>, <<"c","h","0","2",".","x","h","t","m","l","#","s","1">>, <<".",".","/","T","e","x","t","/","c","h","0","1",".","x","h","t","m","l">>,
    <<"n","o","t","e","s",".","x","h","t","m","l">> }

\* group 1 of link_href_pattern, (<a\b[^>]*\shref\s*=\s*), case-insensitive
TagStarts ==
  { ATagStart, <<"<","a"," ","c","l","a","s","s","=","\"","x","\""," ","h","r","e","f","=">>,
    <<"<","a"," ","h","r","e","f"," ","="," ">>, <<"<","A"," ","H","R","E","F","=">> }

Quotes == { <<"\"">>, <<"'">> }

IdMaps ==
  { <<>>,
    BuildContentIdMapping(<<>>, <<TextCh01, OebpsCh02>>, 1),
    << <<<<"t","e","l",":","1","2","3">>, <<"p","a","g","e","0","1">>>>, <<<<"/","/","c","d","n",".","x","/","a">>, <<"p","a","g","e","0","2">>>>,
       <<<<"a">>, <<"p","a","g","e","0","3">>>>, <<<<"d","a","t","a",":","t","e","x","t","/","p","l","a","i","n",",","h","i">>, <<"p","a","g","e","0","4">>>> >> }

HrefCalls ==
  [tag_start : TagStarts, quote : Quotes, href_val : Hrefs, content_id_mapping : IdMaps]

InitLinks ==
  /\ PipelineIdle
  /\ BatchIdle
  /\ call \in {<<c>> : c \in HrefCalls}
  /\ ret = <<>>

\* link_href_pattern.sub calls replace_a_href for the match
ReplaceAHref ==
  /\ ret = <<>>
  /\ ret' = << replace_a_href(call[1].tag_start, call[1].quote, call[1].href_val,
                              call[1].content_id_mapping) >>
  /\ UNCHANGED <<pipelineVars, batchVars, call>>

NextLinks == ReplaceAHref

SpecLinks == InitLinks /\ [][NextLinks]_vars

(***************************************************************************)
(* _fix_fake_anchors applied to a fragment.  The fragment is the           *)
(* concatenation of at most MaxItems tags and texts.                       *)
(***************************************************************************)
BookmarkOpen == <<"<","a"," ","i","d","=","\"","n","o","t","e","1","\"",">">>

LinkOpen == <<"<","a"," ","h","r","e","f","=","\"","x","\"",">">>

AnchorClose == <<"<","/","a",">">>

Lexemes == { BookmarkOpen, LinkOpen, AnchorClose, <<"f","o","o","t","n","o","t","e">>, <<"<","a","b","b","r",">">>, <<"<","/","a","b","b","r",">">> }

Fragments == UNION {[1..n -> Lexemes] : n \in 0..MaxItems}

RECURSIVE Concat(_)
Concat(items) == IF items = <<>> THEN <<>> ELSE items[1] \o Concat(Tail(items))

InitAnchors ==
  /\ PipelineIdle
  /\ BatchIdle
  /\ call \in {<<[items |-> f]>> : f \in Fragments}
  /\ ret = <<>>

FixFakeAnchors ==
  /\ ret = <<>>
  /\ ret' = << _fix_fake_anchors(Concat(call[1].items)) >>
  /\ UNCHANGED <<pipelineVars, batchVars, call>>

NextAnchors == FixFakeAnchors

SpecAnchors == InitAnchors /\ [][NextAnchors]_vars

(***************************************************************************)
(* Properties of the conversion of one book.                               *)
(***************************************************************************)
\* combine_and_generate_html has returned
Combined == pc \in {"fix_links", "done"}

\* the loop that fills content_id_mapping has ended
IdMapBuilt == pc \in {"map_toc", "combine", "pool", "fix_links", "done"}

\* _map_toc_to_chapters has been applied (or skipped for an empty toc)
TocMapped == pc \in {"combine", "pool", "fix_links", "done"}

\* the ids of the chapter containers of a body, in document order
ContainerIds(body) == [k \in 1..Len(body) |-> body[k].id]

\* <<page01, ..., pageN>>
PageIds(n) == [k \in 1..n |-> PageId(k)]

\* the targets of all nodes of a TOC tree, at every depth
RECURSIVE TocTargets(_)
TocTargets(nodes) ==
  UNION {{nodes[k].href} \cup TocTargets(nodes[k].children) : k \in 1..Len(nodes)}

\* the keys each content file registers, by ordinal
RegisteredKeys ==
  [i \in 1..Len(content_files) |->
     LET keys == IdMapKeys(content_files[i]) IN {keys[k] : k \in 1..Len(keys)}]

\* the ordinals of the content files that register key, given RegisteredKeys
Registrants(registered, key) == {i \in DOMAIN registered : key \in registered[i]}

\* the two keys the IdentifierMap must hold for a content file: its path
\* relative to the extraction root and its bare filename
OwnKeys(content_file) == {unquote(content_file), PathName(content_file)}

\* C1: the combined document holds exactly one chapter container per surviving
\* spine entry, in reading order, and the container ids are page01 .. pageN
\* for the N surviving spine entries, with no gap and no duplicate.
C1_OneContainerPerSpineEntry ==
  Combined => ContainerIds(combined_body) = PageIds(Len(content_files))

\* C2 as stated: once the IdentifierMap is built, the path and the bare
\* filename of every surviving spine entry are keys that map to the entry's
\* own anchor.
C2_OwnKeysMapToOwnAnchor ==
  IdMapBuilt =>
    \A i \in 1..Len(content_files) : \A key \in OwnKeys(content_files[i]) :
       /\ DictHas(content_id_mapping, key)
       /\ DictAt(content_id_mapping, key) = PageId(i)

\* C2 amended: once the IdentifierMap is built, the path and the bare filename
\* of every surviving spine entry are keys of the map, each maps to the anchor
\* of a spine entry that registers it, and it maps to the entry's own anchor
\* whenever no other spine entry registers the same key.
C2_OwnKeysPresent ==
  IdMapBuilt =>
    LET registered == RegisteredKeys
    IN \A i \in 1..Len(content_files) : \A key \in OwnKeys(content_files[i]) :
          /\ DictHas(content_id_mapping, key)
          /\ \E j \in Registrants(registered, key) :
                DictGet(content_id_mapping, key) = PageId(j)
          /\ Registrants(registered, key) = {i}
                => DictGet(content_id_mapping, key) = PageId(i)

\* C2 witness: the map is built for a spine where one entry shares its
\* filename with another entry and one entry shares no key with any other
C2_Witness ==
  /\ IdMapBuilt
  /\ \E i, j \in 1..Len(content_files) :
        i # j /\ PathName(content_files[i]) = PathName(content_files[j])
  /\ LET registered == RegisteredKeys
     IN \E i \in 1..Len(content_files) : \A key \in OwnKeys(content_files[i]) :
           /\ Registrants(registered, key) = {i}
           /\ DictGet(content_id_mapping, key) = PageId(i)

\* C3: a key registered by an earlier spine entry is never overwritten by a
\* later one (every key maps to the anchor of the first entry registering
\* it), and with spine Text/ch01.xhtml, OEBPS/ch01.xhtml a TOC reference to
\* the bare filename ch01.xhtml resolves to page01.
C3_FirstWriterWins ==
  /\ IdMapBuilt =>
       LET registered == RegisteredKeys
       IN \A k \in 1..Len(content_id_mapping) :
             \A i \in Registrants(registered, content_id_mapping[k][1]) :
                (\A j \in Registrants(registered, content_id_mapping[k][1]) : i <= j)
                  => content_id_mapping[k][2] = PageId(i)
  /\ (/\ TocMapped
      /\ Len(content_files) >= 2
      /\ content_files[1] = TextCh01
      /\ content_files[2] = OebpsCh01
      /\ book.nav_toc # <<>>
      /\ book.nav_toc[1].href = <<"e","x","t","r","a","c","t","e","d","/","c","h","0","1",".","x","h","t","m","l">>)
     => /\ toc # <<>>
        /\ toc[1].href = <<"#","p","a","g","e","0","1">>

\* C4: after reconciliation every node of the TOC tree, at every depth, has
\* the target #pageNN of a chapter container that exists in the combined
\* document.
C4_TocTargetsExist ==
  pc = "done" =>
    \A target \in TocTargets(final_html[1].toc) :
       \E k \in 1..Len(final_html[1].body) :
          target = <<"#">> \o final_html[1].body[k].id

\* C5: on the thread-pool branch (more than 3 documents) the combined body
\* lists the collected chapters in ascending ordinal, whatever the order in
\* which the worker tasks completed.
C5_ReadingOrderKept ==
  (Combined /\ Len(content_files) > SequentialLimit) =>
    /\ Len(combined_body) = Len(results)
    /\ \A k \in 1..Len(results) : \E l \in 1..Len(combined_body) :
          combined_body[l] = results[k][2]
    /\ \A k, l \in 1..Len(combined_body) :
          k < l => combined_body[k].i < combined_body[l].i

\* C5 witness: the pool branch has ended after the tasks completed out of
\* reading order
C5_Witness ==
  /\ Combined
  /\ Len(content_files) > SequentialLimit
  /\ Len(combined_body) >= 3
  /\ \E k, l \in 1..Len(results) : k < l /\ results[k][1] > results[l][1]

\* C6: without a package document convert_single_epub does not fail.
C6_NoOpfStillConverts ==
  ~book.has_opf => pc # "raised"

(***************************************************************************)
(* Properties of the rewriting of one attribute value.  URLs are           *)
(* classified on the attribute value as written in the document.           *)
(***************************************************************************)
\* the length of the scheme of an absolute URL (a letter, then letters, digits,
\* "+", "-", ".", up to the first ":"), 0 if s has no scheme
SchemeLength(s) ==
  LET colons == {n \in 1..Len(s) : s[n] = ":"}
      first == CHOOSE n \in colons : \A m \in colons : n <= m
  IN IF /\ colons # {}
        /\ first > 1
        /\ IsLowerLetter(LowerChar(s[1]))
        /\ \A i \in 2..(first - 1) :
              IsLowerLetter(LowerChar(s[i])) \/ s[i] \in Digits \/ s[i] \in {"+", "-", "."}
     THEN first - 1
     ELSE 0

IsAbsoluteUrl(s) == SchemeLength(s) > 0

UrlScheme(s) == Lower(SubSeq(s, 1, SchemeLength(s)))

IsProtocolRelativeUrl(s) == Len(s) >= 2 /\ s[1] = "/" /\ s[2] = "/"

IsDataUriValue(s) == IsAbsoluteUrl(s) /\ UrlScheme(s) = <<"d","a","t","a">>

\* the schemes of the links fix_links_and_images removes
RemovedLinkSchemes == {<<"h","t","t","p">>, <<"h","t","t","p","s">>, <<"m","a","i","l","t","o">>, <<"f","t","p">>}

\* the match text replace_a_href was called for
MatchedATag(c) == c.tag_start \o c.quote \o c.href_val \o c.quote

\* C7 as stated: an anchor href that is an absolute URL (any scheme), a
\* protocol-relative URL or a data URI is neither rewritten nor removed.
C7_ExternalHrefUntouched ==
  (/\ ret # <<>>
   /\ \/ IsAbsoluteUrl(call[1].href_val)
      \/ IsProtocolRelativeUrl(call[1].href_val)
      \/ IsDataUriValue(call[1].href_val))
    => ret[1] = MatchedATag(call[1])

\* C7 amended: an anchor href that is a protocol-relative URL, a data URI or
\* an absolute URL with a scheme other than http, https, mailto and ftp is
\* left as it is; an anchor whose href has one of these four schemes and
\* whose attribute is written href= (lower case, no space before the equals
\* sign) loses its href attribute and keeps the rest of its opening tag.
C7_HrefPassthroughOrStripped ==
  ret # <<>> =>
    /\ (\/ IsProtocolRelativeUrl(call[1].href_val)
        \/ /\ IsAbsoluteUrl(call[1].href_val)
           /\ UrlScheme(call[1].href_val) \notin RemovedLinkSchemes)
         => ret[1] = MatchedATag(call[1])
    /\ (/\ IsAbsoluteUrl(call[1].href_val)
        /\ UrlScheme(call[1].href_val) \in RemovedLinkSchemes
        /\ Contains(call[1].tag_start, HrefEq))
         => /\ ret[1] \o <<" ","h","r","e","f","=">> = call[1].tag_start
            /\ ~Contains(ret[1], HrefEq)

\* C7 witness: a tel: href that is a key of the IdentifierMap has been left
\* as it is
C7_Witness ==
  /\ ret # <<>>
  /\ call[1].href_val = <<"t","e","l",":","1","2","3">>
  /\ DictHas(call[1].content_id_mapping, call[1].href_val)
  /\ ret[1] = MatchedATag(call[1])

RECURSIVE SpansForBookmarks(_, _)
SpansForBookmarks(items, open) ==
  IF items = <<>> THEN <<>>
  ELSE IF items[1] = BookmarkOpen
  THEN <<"<","s","p","a","n"," ","i","d","=","\"","n","o","t","e","1","\"",">">> \o SpansForBookmarks(Tail(items), Append(open, TRUE))
  ELSE IF items[1] = LinkOpen
  THEN LinkOpen \o SpansForBookmarks(Tail(items), Append(open, FALSE))
  ELSE IF items[1] = AnchorClose /\ open # <<>>
  THEN (IF open[Len(open)] THEN <<"<","/","s","p","a","n",">">> ELSE AnchorClose)
       \o SpansForBookmarks(Tail(items), SubSeq(open, 1, Len(open) - 1))
  ELSE items[1] \o SpansForBookmarks(Tail(items), open)

\* every </a> closes an open <a>, and every <a> is closed
RECURSIVE AnchorsBalanced(_, _)
AnchorsBalanced(items, depth) ==
  IF items = <<>> THEN depth = 0
  ELSE IF items[1] \in {BookmarkOpen, LinkOpen}
  THEN AnchorsBalanced(Tail(items), depth + 1)
  ELSE IF items[1] = AnchorClose
  THEN depth > 0 /\ AnchorsBalanced(Tail(items), depth - 1)
  ELSE AnchorsBalanced(Tail(items), depth)

\* C9: _fix_fake_anchors turns every <a> element without href into a span,
\* opening tag and depth-matched closing tag, keeps its attributes and its
\* content, and keeps both tags of every <a> element with an href, also when
\* anchors are nested.
C9_BookmarksBecomeSpans ==
  (/\ ret # <<>>
   /\ \E k \in 1..Len(call[1].items) : call[1].items[k] \in {BookmarkOpen, LinkOpen}
   /\ AnchorsBalanced(call[1].items, 0))
    => ret[1] = SpansForBookmarks(call[1].items, <<>>)

\* C10: an img src that equals a PathMapping key only up to letter case once
\* resolved against the document's directory is rewritten to that key's value.
C10_CaseInsensitiveFallback ==
  ret # <<>> =>
    LET src == call[1].src_val
        resolved == ResolveFrom(PathParent(call[1].content_file_path), PathComponents(src))
    IN (/\ ~IsAbsoluteUrl(src)
        /\ ~PathIsAbsolute(src)
        /\ resolved # Outside)
         => \A k \in 1..Len(call[1].path_mapping) :
               (/\ Lower(call[1].path_mapping[k][1]) = Lower(AsPosix(resolved))
                /\ ~DictHas(call[1].path_mapping, AsPosix(resolved)))
                 => ret[1] = [raised |-> FALSE, src |-> call[1].path_mapping[k][2]]

(***************************************************************************)
(* Properties of the synthesized TOC and of the reconciliation of TOC      *)
(* targets.                                                                *)
(***************************************************************************)
\* no strategy of _find_toc_robust yielded a tree for a book with a package
\* document
NoNavigationTree == book.has_opf /\ book.nav_toc = <<>>

\* C12: when no strategy yields a tree, find_and_parse_toc returns an empty
\* tree, generate_basic_toc synthesizes exactly one entry per surviving spine
\* document, labelled in spine order, and every one of these entries is in the
\* TOC of the final metadata.
C12_BasicTocPerSpineDocument ==
  NoNavigationTree =>
    /\ pc \in {"content_files", "images", "basic_toc"} => toc = <<>>
    /\ (pc = "id_mapping" \/ IdMapBuilt) =>
         /\ Len(toc) = Len(content_files)
         /\ \A i \in 1..Len(toc) :
              toc[i].label = <<"C","h","a","p","t","e","r"," ">> \o Decimal(i)
    /\ pc = "done" => final_html[1].toc = toc

\* C12 witness: a book without navigation tree has been written with a
\* synthesized TOC of several entries
C12_Witness ==
  /\ NoNavigationTree
  /\ pc = "done"
  /\ Len(content_files) >= 2
  /\ Len(final_html[1].toc) = Len(content_files)

\* C15: the i-th synthesized entry has the target #page<i> in the final
\* metadata TOC, so the entries of distinct chapters have distinct targets.
C15_BasicTocTargetsOwnAnchor ==
  (NoNavigationTree /\ pc = "done") =>
    \A i \in 1..Len(final_html[1].toc) :
       final_html[1].toc[i].href = <<"#">> \o PageId(i)

\* C18: when there is a chapter 1, a node of the parsed TOC that matches no key
\* of the IdentifierMap by any strategy stays in the tree with the target
\* #page01.
C18_UnmatchedNodeDefaultsToFirstChapter ==
  (TocMapped /\ content_files # <<>>) =>
    \A k \in 1..Len(book.nav_toc) :
       TocChapterId(book.nav_toc[k].href, content_id_mapping) = <<>> =>
         \E l \in 1..Len(toc) :
            /\ toc[l].label = book.nav_toc[k].label
            /\ toc[l].href = <<"#","p","a","g","e","0","1">>

(***************************************************************************)
(* EPUBParser: the boilerplate filter and the parsers of the navigation    *)
(* documents.  A navigation document is [kind, markup, entries]: kind is   *)
(* "xhtml" or "ncx"; entries is the tree of its links, each                *)
(* [label, href, children] with the text and the href (src) attribute as   *)
(* written; markup says what the XML parser makes of the file:             *)
(*   "ns"        well formed, the list elements in the XHTML namespace     *)
(*   "no_ns"     well formed, no namespace declared                        *)
(*   "no_list"   well formed, the links are not in nav/ol/li elements      *)
(*   "malformed" not well formed, ET.parse raises                          *)
(* The package document lies at the extraction root, and the hrefs are     *)
(* relative paths without dot segments.                                    *)
(***************************************************************************)
\* str.endswith(p)
EndsWith(s, p) == Len(s) >= Len(p) /\ SubSeq(s, Len(s) - Len(p) + 1, Len(s)) = p

filter_patterns ==
  << <<"c","o","p","y","r","i","g","h","t">>, <<"n","e","w","s","l","e","t","t","e","r">>, <<"a","b","o","u","t"," ","j","-","n","o","v","e","l"," ","c","l","u","b">>, <<"a","b","o","u","t"," ","y","e","n"," ","p","r","e","s","s">>,
     <<"y","e","n"," ","n","e","w","s","l","e","t","t","e","r">>, <<"j","-","n","o","v","e","l"," ","c","l","u","b"," ","n","e","w","s","l","e","t","t","e","r">>, <<"n","e","w","s","l","e","t","t","e","r"," ","s","i","g","n","u","p">>,
     <<"n","e","w","s","l","e","t","t","e","r"," ","s","i","g","n","-","u","p">>, <<"n","e","w","s","l","e","t","t","e","r"," ","s","u","b","s","c","r","i","p","t","i","o","n">>, <<"s","u","b","s","c","r","i","b","e"," ","n","o","w">>,
     <<"s","u","b","s","c","r","i","p","t","i","o","n"," ","p","a","g","e">>, <<"s","i","g","n"," ","u","p"," ","p","a","g","e">>, <<"s","i","g","n","u","p"," ","p","a","g","e">>, <<"c","o","n","t","a","c","t"," ","u","s">>,
     <<"s","u","p","p","o","r","t"," ","p","a","g","e">>, <<"h","e","l","p"," ","p","a","g","e">>, <<"a","d","v","e","r","t","i","s","e","m","e","n","t">>, <<"p","r","o","m","o"," ","p","a","g","e">>,
     <<"p","r","o","m","o","t","i","o","n"," ","p","a","g","e">>, <<"l","e","g","a","l"," ","n","o","t","i","c","e">>, <<"l","e","g","a","l"," ","i","n","f","o","r","m","a","t","i","o","n">>,
     <<"t","e","r","m","s"," ","o","f"," ","s","e","r","v","i","c","e">>, <<"p","r","i","v","a","c","y"," ","p","o","l","i","c","y">>, <<"b","a","c","k"," ","m","a","t","t","e","r">>, <<"e","n","d"," ","m","a","t","t","e","r">>,
     <<"c","o","l","o","p","h","o","n">>, <<"i","m","p","r","i","n","t">>, <<"p","u","b","l","i","s","h","e","r"," ","i","n","f","o","r","m","a","t","i","o","n">>, <<"a","b","o","u","t"," ","p","u","b","l","i","s","h","e","r">>,
     <<"c","r","e","d","i","t","s"," ","a","n","d"," ","c","o","p","y","r","i","g","h","t">>, <<"c","o","p","y","r","i","g","h","t"," ","p","a","g","e">>, <<"o","t","h","e","r"," ","s","e","r","i","e","s">> >>

unwanted_files ==
  << <<"n","e","w","s","l","e","t","t","e","r">>, <<"s","i","g","n","u","p">>, <<"c","o","p","y","r","i","g","h","t">>, <<"l","e","g","a","l">>, <<"a","b","o","u","t">>,
     <<"c","o","n","t","a","c","t">>, <<"s","u","p","p","o","r","t">>, <<"h","e","l","p">>, <<"a","d">>, <<"p","r","o","m","o">>, <<"s","u","b","s","c","r","i","b","e">> >>

\* the filter that looks at nothing: no entry is boilerplate
NothingFiltered(label, href) == FALSE

\* _should_filter_content(label, href)
_should_filter_content(label, href) ==
  /\ label # <<>>
  /\ LET label_lower == Strip(Lower(label))
         href_lower == Lower(href)
     IN \/ \E k \in 1..Len(filter_patterns) :
              LET pattern_lower == Lower(filter_patterns[k])
              IN \/ pattern_lower = label_lower
                 \/ /\ Contains(label_lower, pattern_lower)
                    /\ \/ StartsWith(label_lower, pattern_lower \o <<" ">>)
                       \/ EndsWith(label_lower, <<" ">> \o pattern_lower)
                       \/ Contains(label_lower, <<" ">> \o pattern_lower \o <<" ">>)
        \/ /\ href # <<>>
           /\ \E k \in 1..Len(unwanted_files) : Contains(href_lower, unwanted_files[k])

problematic_fragments ==
  { <<"a","u","t","o","_","b","o","o","k","m","a","r","k","_","t","o","c","_","t","o","p">>, <<"t","o","c","_","t","o","p">>, <<"b","o","o","k","m","a","r","k","_","t","o","c","_","t","o","p">>,
    <<"a","u","t","o","_","b","o","o","k","m","a","r","k">>, <<"b","o","o","k","m","a","r","k">>, <<"t","o","p">> }

\* _clean_toc_href(href)
_clean_toc_href(href) ==
  IF href = <<>> THEN href
  ELSE LET parts == Split1(href, <<"#">>)
           file_part == Strip(parts[1])
           fragment == IF Len(parts) = 2 THEN parts[2] ELSE <<>>
       IN IF fragment # <<>> /\ Lower(fragment) \in problematic_fragments
          THEN file_part
          ELSE IF fragment # <<>> THEN file_part \o <<"#">> \o fragment
          ELSE file_part

\* urljoin(str(base_dir.as_posix()) + '/', href) with the temporary directory
\* prefix removed: base_dir is <temp_dir>/extracted
NavFullHref(href) == <<"e","x","t","r","a","c","t","e","d","/">> \o href

\* the dict a parser builds for a link that is kept
NavItemHref(href) == unquote(_clean_toc_href(NavFullHref(href)))

\* parse_ol of parse_nav_xhtml: (toc, filtered_hrefs) of the li children of an
\* ol element; the nested list of a filtered li is not visited
RECURSIVE parse_ol(_)
parse_ol(ol_element) ==
  IF ol_element = <<>> THEN << <<>>, <<>> >>
  ELSE LET li == ol_element[1]
           label == Strip(li.label)
           item_href == NavItemHref(li.href)
           rest == parse_ol(Tail(ol_element))
       IN IF label = <<>> THEN rest
          ELSE IF _should_filter_content(label, item_href)
          THEN << rest[1], <<item_href>> \o rest[2] >>
          ELSE LET nested == parse_ol(li.children)
               IN << <<TocItem(label, item_href, nested[1])>> \o rest[1],
                     nested[2] \o rest[2] >>

\* the elements findall('.//li') yields: every li below the element, in
\* document order
RECURSIVE DescendantItems(_)
DescendantItems(ol_element) ==
  IF ol_element = <<>> THEN <<>>
  ELSE <<ol_element[1]>> \o DescendantItems(ol_element[1].children)
       \o DescendantItems(Tail(ol_element))

\* parse_ol_no_ns of parse_nav_xhtml: the loop runs over every li below the
\* element, and the nested list of a kept li is parsed again for its children
RECURSIVE NoNsItems(_)
NoNsItems(lis) ==
  IF lis = <<>> THEN << <<>>, <<>> >>
  ELSE LET li == lis[1]
           label == Strip(li.label)
           item_href == NavItemHref(li.href)
           rest == NoNsItems(Tail(lis))
       IN IF label = <<>> THEN rest
          ELSE IF _should_filter_content(label, item_href)
          THEN << rest[1], <<item_href>> \o rest[2] >>
          ELSE LET nested == NoNsItems(DescendantItems(li.children))
               IN << <<TocItem(label, item_href, nested[1])>> \o rest[1],
                     nested[2] \o rest[2] >>

parse_ol_no_ns(ol_element) == NoNsItems(DescendantItems(ol_element))

\* what a sub-strategy hands to the loop of parse_nav_xhtml: an exception, or
\* the returned object (a tuple or a list, as a sequence)
Raises == [raised |-> TRUE, value |-> <<>>]

Returns(value) == [raised |-> FALSE, value |-> value]

_parse_nav_with_namespaces(nav_doc) ==
  IF nav_doc.markup = "malformed" THEN Raises
  ELSE IF nav_doc.markup = "ns" THEN Returns(parse_ol(nav_doc.entries))
  ELSE Returns(<< <<>>, <<>> >>)

\* the last statement is 'return []'
_parse_nav_without_namespaces(nav_doc) ==
  IF nav_doc.markup = "malformed" THEN Raises
  ELSE IF nav_doc.markup = "ns" THEN Returns(parse_ol(nav_doc.entries))
  ELSE IF nav_doc.markup = "no_ns" THEN Returns(parse_ol_no_ns(nav_doc.entries))
  ELSE Returns(<<>>)

\* the list the regex fallback builds from the matches of link_pattern: one
\* dict per anchor with a non-empty label, neither cleaned nor filtered
RECURSIVE RegexItems(_)
RegexItems(anchors) ==
  IF anchors = <<>> THEN <<>>
  ELSE (IF Strip(anchors[1].label) = <<>> THEN <<>>
        ELSE << TocItem(Strip(anchors[1].label),
                        unquote(NavFullHref(anchors[1].href)), <<>>) >>)
       \o RegexItems(Tail(anchors))

\* 'return toc' or 'return []': a list, not a (toc, filtered_hrefs) pair
_parse_nav_regex_fallback(nav_doc) ==
  Returns(RegexItems(DescendantItems(nav_doc.entries)))

\* what parse_nav_xhtml and parse_ncx_toc return.  dict_pair says that the two
\* values are the two dicts of a two-element list that the loop unpacked:
\* tree then holds the first dict, and filtered the keys of the second (what
\* iterating over it yields)
NavResult(tree, filtered, dict_pair) ==
  [toc |-> tree, filtered_hrefs |-> filtered, dict_pair |-> dict_pair]

NoNavResult == NavResult(<<>>, <<>>, FALSE)

\* toc, filtered_hrefs = strategy(...) succeeds for an object of two elements
Unpacks(outcome) == ~outcome.raised /\ Len(outcome.value) = 2

\* parse_nav_xhtml(nav_file, base_dir) for an existing file
parse_nav_xhtml(nav_doc) ==
  LET with_ns == _parse_nav_with_namespaces(nav_doc)
      without_ns == _parse_nav_without_namespaces(nav_doc)
      regex == _parse_nav_regex_fallback(nav_doc)
  IN IF Unpacks(with_ns) /\ with_ns.value[1] # <<>>
     THEN NavResult(with_ns.value[1], with_ns.value[2], FALSE)
     ELSE IF Unpacks(without_ns) /\ without_ns.value[1] # <<>>
     THEN NavResult(without_ns.value[1], without_ns.value[2], FALSE)
     ELSE IF Unpacks(regex)
     THEN NavResult(<<regex.value[1]>>, <<<<"l","a","b","e","l">>, <<"h","r","e","f">>>>, TRUE)
     ELSE NoNavResult

\* parse_navpoint of parse_ncx_toc: as parse_ol, but the label is tested before
\* it is stripped and a navPoint without src is skipped
RECURSIVE parse_navpoint(_)
parse_navpoint(navpoint) ==
  IF navpoint = <<>> THEN << <<>>, <<>> >>
  ELSE LET point == navpoint[1]
           label == Strip(point.label)
           item_href == NavItemHref(point.href)
           rest == parse_navpoint(Tail(navpoint))
       IN IF point.label = <<>> \/ point.href = <<>> THEN rest
          ELSE IF _should_filter_content(label, item_href)
          THEN << rest[1], <<item_href>> \o rest[2] >>
          ELSE LET nested == parse_navpoint(point.children)
               IN << <<TocItem(label, item_href, nested[1])>> \o rest[1],
                     nested[2] \o rest[2] >>

\* parse_ncx_toc(ncx_file, base_dir) for an existing file whose content
\* elements are empty elements (<content src="..."/>), which navpoint_pattern
\* does not match: the regex fallback finds nothing
parse_ncx_toc(ncx_doc) ==
  IF ncx_doc.markup = "ns" /\ parse_navpoint(ncx_doc.entries)[1] # <<>>
  THEN NavResult(parse_navpoint(ncx_doc.entries)[1],
                 parse_navpoint(ncx_doc.entries)[2], FALSE)
  ELSE NoNavResult

(***************************************************************************)
(* _find_toc_robust and find_and_parse_toc on a package.  A package names  *)
(* the navigation documents each strategy of _find_toc_robust finds, each  *)
(* field a sequence of documents in the order the strategy visits them:    *)
(*   nav_item        the existing file of the manifest item with           *)
(*                   properties="nav"                                      *)
(*   spine_toc       the existing NCX file the spine's toc attribute names *)
(*   named_files     what _find_nav_files_by_name returns                  *)
(*   sniffed_files   the (X)HTML files _extract_toc_from_xhtml_files reads *)
(*                   and finds a navigation pattern in                     *)
(*   manifest_items  the existing files of the manifest items that         *)
(*                   _extract_toc_from_manifest_items takes for navigation *)
(***************************************************************************)
\* the number of strategies of _find_toc_robust
StrategyCount == 5

\* nav_file.suffix.lower() == '.ncx' selects the parser
ParseNavFile(nav_doc) ==
  IF nav_doc.kind = "ncx" THEN parse_ncx_toc(nav_doc) ELSE parse_nav_xhtml(nav_doc)

\* for nav_file in nav_files: parse; if toc: return toc, filtered_hrefs
RECURSIVE FirstNavTree(_)
FirstNavTree(nav_docs) ==
  IF nav_docs = <<>> THEN NoNavResult
  ELSE LET parsed == ParseNavFile(nav_docs[1])
       IN IF parsed.toc # <<>> THEN parsed ELSE FirstNavTree(Tail(nav_docs))

\* for each (X)HTML file with a navigation pattern: parse_nav_xhtml
RECURSIVE _extract_toc_from_xhtml_files(_)
_extract_toc_from_xhtml_files(nav_docs) ==
  IF nav_docs = <<>> THEN NoNavResult
  ELSE LET parsed == parse_nav_xhtml(nav_docs[1])
       IN IF parsed.toc # <<>> THEN parsed
          ELSE _extract_toc_from_xhtml_files(Tail(nav_docs))

\* what the k-th strategy of _find_toc_robust assigns to toc, filtered_hrefs
FindTocStrategy(k, package) ==
  CASE k = 1 -> IF package.nav_item = <<>> THEN NoNavResult
                ELSE parse_nav_xhtml(package.nav_item[1])
    [] k = 2 -> IF package.spine_toc = <<>> THEN NoNavResult
                ELSE parse_ncx_toc(package.spine_toc[1])
    [] k = 3 -> FirstNavTree(package.named_files)
    [] k = 4 -> _extract_toc_from_xhtml_files(package.sniffed_files)
    [] k = 5 -> FirstNavTree(package.manifest_items)

\* a later strategy is run although an earlier one yielded a tree
NextStrategyIgnoringSuccess(last) ==
  IF last = <<>> THEN 1
  ELSE IF last[1].strategy < StrategyCount THEN last[1].strategy + 1
  ELSE 0

\* the strategy _find_toc_robust runs next, given the outcome of the last one
\* run (<<>> at entry); 0 when it returns
NextStrategy(last) ==
  IF last = <<>> THEN 1
  ELSE IF last[1].toc # <<>> THEN 0
  ELSE IF last[1].strategy < StrategyCount THEN last[1].strategy + 1
  ELSE 0

\* _find_toc_robust as a whole: the outcome of the last strategy it runs
RECURSIVE FindTocFrom(_, _)
FindTocFrom(last, package) ==
  IF NextStrategy(last) = 0 THEN last[1]
  ELSE FindTocFrom(
         << [strategy |-> NextStrategy(last)]
            @@ FindTocStrategy(NextStrategy(last), package) >>, package)

_find_toc_robust(package) == FindTocFrom(<<>>, package)

Ch1Doc == <<"c","h","1",".","x","h","t","m","l">>

Ch2Doc == <<"c","h","2",".","x","h","t","m","l">>

\* the link trees of the navigation documents
CopyrightThenChapter1 ==
  << TocItem(<<"C","o","p","y","r","i","g","h","t">>, <<"c","o","p","y","r","i","g","h","t",".","x","h","t","m","l">>, <<>>),
     TocItem(<<"C","h","a","p","t","e","r"," ","1">>, <<"c","h","1",".","x","h","t","m","l","#","t","o","p">>, <<>>) >>

ChapterBelowCopyright ==
  << TocItem(<<"C","o","p","y","r","i","g","h","t">>, <<"f","r","o","n","t",".","x","h","t","m","l">>,
             << TocItem(<<"C","h","a","p","t","e","r"," ","1">>, <<"c","h","1",".","x","h","t","m","l">>, <<>>) >>),
     TocItem(<<"C","h","a","p","t","e","r"," ","2">>, <<"c","h","2",".","x","h","t","m","l">>, <<>>) >>

OnlyNewsletter == << TocItem(<<"N","e","w","s","l","e","t","t","e","r">>, <<"c","h","2",".","x","h","t","m","l">>, <<>>) >>

TwoBoilerplate ==
  << TocItem(<<"C","o","p","y","r","i","g","h","t">>, <<"c","o","p","y","r","i","g","h","t",".","x","h","t","m","l">>, <<>>),
     TocItem(<<"N","e","w","s","l","e","t","t","e","r">>, <<"c","h","2",".","x","h","t","m","l">>, <<>>) >>

NestedChapters ==
  << TocItem(<<"C","h","a","p","t","e","r"," ","1">>, <<"c","h","1",".","x","h","t","m","l">>,
             << TocItem(<<"C","h","a","p","t","e","r"," ","2">>, <<"c","h","2",".","x","h","t","m","l","#","s","1">>, <<>>) >>),
     TocItem(<<"C","o","v","e","r">>, <<"c","o","v","e","r",".","x","h","t","m","l">>, <<>>) >>

NavEntries ==
  { <<>>, CopyrightThenChapter1, ChapterBelowCopyright, OnlyNewsletter,
    TwoBoilerplate, NestedChapters }

NavDoc(kind, markup, entries) == [kind |-> kind, markup |-> markup, entries |-> entries]

NavDocs ==
  {NavDoc("xhtml", markup, entries) :
     markup \in {"ns", "no_ns", "no_list", "malformed"}, entries \in NavEntries}

\* the documents found by the strategies after the first
OtherNavFiles ==
  { [spine_toc |-> <<>>, named_files |-> <<>>, sniffed_files |-> <<>>,
     manifest_items |-> <<>>],
    [spine_toc |-> << NavDoc("ncx", "ns", CopyrightThenChapter1) >>,
     named_files |-> <<>>, sniffed_files |-> <<>>, manifest_items |-> <<>>],
    [spine_toc |-> << NavDoc("ncx", "ns", ChapterBelowCopyright) >>,
     named_files |-> <<>>, sniffed_files |-> <<>>, manifest_items |-> <<>>],
    [spine_toc |-> << NavDoc("ncx", "ns", OnlyNewsletter) >>,
     named_files |-> << NavDoc("ncx", "malformed", NestedChapters),
                        NavDoc("xhtml", "ns", NestedChapters) >>,
     sniffed_files |-> <<>>, manifest_items |-> <<>>],
    [spine_toc |-> <<>>, named_files |-> <<>>,
     sniffed_files |-> << NavDoc("xhtml", "no_ns", CopyrightThenChapter1) >>,
     manifest_items |-> <<>>],
    [spine_toc |-> <<>>, named_files |-> <<>>, sniffed_files |-> <<>>,
     manifest_items |-> << NavDoc("xhtml", "ns", OnlyNewsletter),
                           NavDoc("ncx", "ns", NestedChapters) >>] }

Packages ==
  {[nav_item |-> nav_item] @@ other :
     nav_item \in {<<>>} \cup {<<nav_doc>> : nav_doc \in NavDocs},
     other \in OtherNavFiles}

NavSpines == { <<CoverDoc, Ch1Doc, Ch2Doc>>, <<Ch2Doc, Ch1Doc>> }

NoPackage ==
  [nav_item |-> <<>>, spine_toc |-> <<>>, named_files |-> <<>>,
   sniffed_files |-> <<>>, manifest_items |-> <<>>]

\* the EPUBs of the navigation runs: a package with its spine, or an archive
\* without package document
NavBooks ==
  {[book |-> [has_opf |-> TRUE, spine |-> spine, nav_toc |-> <<>>,
              nav_filtered |-> <<>>, path_mapping |-> <<>>],
    package |-> package] : spine \in NavSpines, package \in Packages}
  \cup {[book |-> NoBook, package |-> NoPackage]}

InitNav ==
  /\ \E epub \in NavBooks : book = epub.book /\ call = <<epub.package>>
  /\ ret = <<>>
  /\ BatchIdle
  /\ pc = "start"
  /\ opf_file = FALSE
  /\ toc = <<>>
  /\ filtered_hrefs = <<>>
  /\ content_files = <<>>
  /\ path_mapping = <<>>
  /\ content_id_mapping = <<>>
  /\ pending = {}
  /\ completed = <<>>
  /\ results = <<>>
  /\ combined_body = <<>>
  /\ final_html = <<>>

\* one strategy of _find_toc_robust, called by find_and_parse_toc
TryStrategy(k) ==
  /\ pc = "parse_toc"
  /\ opf_file
  /\ k = NextStrategy(ret)
  /\ ret' = << [strategy |-> k] @@ FindTocStrategy(k, call[1]) >>
  /\ UNCHANGED <<pipelineVars, batchVars, call>>

\* the return of _find_toc_robust and of find_and_parse_toc, and the unpacking
\* toc, metadata, filtered_hrefs = ... in convert_single_epub
ReturnToc ==
  /\ pc = "parse_toc"
  /\ ~opf_file \/ NextStrategy(ret) = 0
  /\ LET returned ==
           IF ~opf_file THEN find_and_parse_toc(opf_file, <<>>, <<>>)
           ELSE find_and_parse_toc(opf_file, ret[1].toc, ret[1].filtered_hrefs)
     IN IF Len(returned) # 3
        THEN /\ pc' = "raised"
             /\ UNCHANGED <<toc, filtered_hrefs>>
        ELSE /\ toc' = returned[1]
             /\ filtered_hrefs' = returned[3]
             /\ pc' = "content_files"
  /\ UNCHANGED <<book, opf_file, content_files, path_mapping, content_id_mapping,
                 pending, completed, results, combined_body, final_html, callVars, batchVars>>

\* toc is the first dict of an unpacked two-element list
TocIsDict == ret # <<>> /\ ret[1].dict_pair /\ toc # <<>>

\* _map_toc_to_chapters over a dict: process_toc_item gets the key 'label', a
\* str in which 'href' does not occur, and reads file_path before any
\* assignment: UnboundLocalError
MapDictToChapters ==
  /\ pc = "map_toc"
  /\ TocIsDict
  /\ pc' = "raised"
  /\ UNCHANGED <<book, opf_file, toc, filtered_hrefs, content_files, path_mapping,
                 content_id_mapping, pending, completed, results, combined_body,
                 final_html, callVars, batchVars>>

NextNav ==
  \/ FindOpfFile
  \/ \E k \in 1..StrategyCount : TryStrategy(k)
  \/ ReturnToc
  \/ FindContentFiles
  \/ ProcessImages
  \/ GenerateBasicToc
  \/ BuildIdMapping
  \/ ~TocIsDict /\ MapTocToChapters
  \/ MapDictToChapters
  \/ CombineSmall
  \/ WriteOutput

SpecNav == InitNav /\ [][NextNav]_vars

(***************************************************************************)
(* Properties of the navigation runs.                                      *)
(***************************************************************************)
\* the navigation documents of a package, in the order the strategies of
\* _find_toc_robust reach them
PackageDocs(package) ==
  package.nav_item \o package.spine_toc \o package.named_files
  \o package.sniffed_files \o package.manifest_items

\* the scenario of C11: the spine is cover.xhtml, ch1.xhtml, ch2.xhtml and the
\* first navigation document, which the XML parser can read, lists
\* Copyright -> copyright.xhtml and Chapter 1 -> ch1.xhtml#top
CopyrightScenario ==
  /\ book.spine = <<CoverDoc, Ch1Doc, Ch2Doc>>
  /\ PackageDocs(call[1]) # <<>>
  /\ PackageDocs(call[1])[1].entries = CopyrightThenChapter1
  /\ PackageDocs(call[1])[1].markup \in {"ns", "no_ns"}

\* C11: in the scenario the Copyright entry is removed by the label filter, the
\* spine keeps its three documents, and the final TOC has exactly one entry,
\* Chapter 1, with the target #page02.
C11_FilteredEntryLeavesSpine ==
  CopyrightScenario =>
    /\ pc # "raised"
    /\ pc \in {"images", "basic_toc", "id_mapping", "map_toc", "combine",
               "fix_links", "done"} =>
         /\ filtered_hrefs = << <<"e","x","t","r","a","c","t","e","d","/","c","o","p","y","r","i","g","h","t",".","x","h","t","m","l">> >>
         /\ content_files = <<CoverDoc, Ch1Doc, Ch2Doc>>
    /\ TocMapped => toc = << TocItem(<<"C","h","a","p","t","e","r"," ","1">>, <<"#","p","a","g","e","0","2">>, <<>>) >>
    /\ pc = "done" => final_html[1].toc = toc

\* C11 witness: the scenario's book has been written
C11_Witness ==
  /\ CopyrightScenario
  /\ pc = "done"
  /\ Len(final_html[1].toc) = 1
  /\ Len(content_files) = 3

\* the filter excludes the entry when the parser evaluates it
EntryFiltered(entry) ==
  /\ Strip(entry.label) # <<>>
  /\ _should_filter_content(Strip(entry.label), NavItemHref(entry.href))

\* the (label, href) pairs of all nodes of a TOC tree, at every depth
RECURSIVE TocEntries(_)
TocEntries(nodes) ==
  UNION {{<<nodes[k].label, nodes[k].href>>} \cup TocEntries(nodes[k].children) :
           k \in 1..Len(nodes)}

\* the document whose parse is the outcome of strategy 1 or 2, when that
\* strategy has just run and the XML parser reads the document as a list
\* tree; otherwise no document
XmlParsedDocs ==
  IF ret = <<>> \/ ret[1].dict_pair THEN {}
  ELSE LET found == IF ret[1].strategy = 1 THEN call[1].nav_item
                    ELSE IF ret[1].strategy = 2 THEN call[1].spine_toc
                    ELSE <<>>
       IN {found[k] : k \in {l \in 1..Len(found) : found[l].markup \in {"ns", "no_ns"}}}

\* C16: when parse_nav_xhtml or parse_ncx_toc excludes an entry by the
\* boilerplate filter, every child of that entry that does not itself match
\* the filter appears in the resulting TOC.
C16_ChildrenOfFilteredEntryKept ==
  \A nav_doc \in XmlParsedDocs :
     ret[1].toc # <<>> =>
       \A i \in 1..Len(nav_doc.entries) :
          EntryFiltered(nav_doc.entries[i]) =>
            \A j \in 1..Len(nav_doc.entries[i].children) :
               LET child == nav_doc.entries[i].children[j]
               IN (Strip(child.label) # <<>> /\ ~EntryFiltered(child)) =>
                    <<Strip(child.label), NavItemHref(child.href)>>
                      \in TocEntries(ret[1].toc)

\* find_and_parse_toc has returned three values to convert_single_epub
TocReturned == pc \notin {"start", "parse_toc", "raised"}

\* the package holds one navigation document, the manifest's nav item, and the
\* XML parser reads it as a list tree
SingleNavDocument ==
  /\ Len(PackageDocs(call[1])) = 1
  /\ call[1].nav_item # <<>>
  /\ call[1].nav_item[1].markup \in {"ns", "no_ns"}

\* C17: whether or not an entry survives, the href of every entry the filter
\* excluded is in the filtered-href set that find_and_parse_toc returns and
\* that find_content_files receives.
C17_FilteredHrefsReturned ==
  (SingleNavDocument /\ TocReturned) =>
    \A i \in 1..Len(call[1].nav_item[1].entries) :
       EntryFiltered(call[1].nav_item[1].entries[i]) =>
         \E k \in 1..Len(filtered_hrefs) :
            filtered_hrefs[k] = NavItemHref(call[1].nav_item[1].entries[i].href)

\* the anchors of a document that have a non-empty label, in document order
RECURSIVE LabelledAnchors(_)
LabelledAnchors(anchors) ==
  IF anchors = <<>> THEN <<>>
  ELSE (IF Strip(anchors[1].label) = <<>> THEN <<>> ELSE <<anchors[1]>>)
       \o LabelledAnchors(Tail(anchors))

\* C19: when the XML parses of the navigation document raise or find no list,
\* parse_nav_xhtml returns one entry (label, resolved href) per anchor with a
\* non-empty label, for any number N >= 1 of such anchors.
C19_RegexFallbackPerAnchor ==
  (/\ ret # <<>>
   /\ ret[1].strategy = 1
   /\ call[1].nav_item # <<>>
   /\ call[1].nav_item[1].markup \in {"malformed", "no_list"}) =>
    LET anchors == LabelledAnchors(DescendantItems(call[1].nav_item[1].entries))
    IN Len(anchors) >= 1 =>
         /\ ~ret[1].dict_pair
         /\ Len(ret[1].toc) = Len(anchors)
         /\ \A i \in 1..Len(anchors) :
              /\ ret[1].toc[i].label = Strip(anchors[i].label)
              /\ ret[1].toc[i].href = unquote(NavFullHref(anchors[i].href))

\* C20: the strategies of _find_toc_robust run in the order 1, 2, 3, 4, 5, none
\* runs after one has yielded a tree, and what is returned is the tree of the
\* last strategy run: the first that yields at least one entry, or the empty
\* tree after all five have yielded nothing.
C20_StrategiesInOrder ==
  [][ /\ ret' # ret =>
           /\ ret' # <<>>
           /\ ret'[1].strategy = (IF ret = <<>> THEN 1 ELSE ret[1].strategy + 1)
           /\ ret # <<>> => ret[1].toc = <<>>
      /\ (pc = "parse_toc" /\ pc' = "content_files") =>
           /\ ret # <<>>
           /\ toc' = ret[1].toc
           /\ \A k \in 1..(ret[1].strategy - 1) :
                 FindTocStrategy(k, call[1]).toc = <<>>
           /\ toc' = <<>> => ret[1].strategy = StrategyCount ]_vars

\* C20 witness: the third strategy is the first that yielded a tree, and its
\* tree has been returned
C20_Witness ==
  /\ pc = "content_files"
  /\ ret # <<>>
  /\ ret[1].strategy = 3
  /\ call[1].nav_item # <<>>
  /\ call[1].spine_toc # <<>>
  /\ toc # <<>>
  /\ toc = ret[1].toc

(***************************************************************************)
(* Directory mode.  convert hands the discovered EPUBs to _convert_parallel;*)
(* every EPUB becomes one call of _convert_single_with_error_handling on   *)
(* a worker of the executor.  A temporary directory is named by the number *)
(* of the EPUB whose run created it, 0 names "none".                       *)
(***************************************************************************)

\* the bookkeeping of one future in the as_completed loop of
\* _convert_parallel, counts = <<completed_count, failed_count>>
CountOnlyCompleted(counts, result) ==
  IF result = "True" THEN <<counts[1] + 1, counts[2]>> ELSE counts

CountResult(counts, result) ==
  CASE result = "True"      -> <<counts[1] + 1, counts[2]>>
    [] result = "False"     -> <<counts[1], counts[2] + 1>>
    [] result = "exception" -> <<counts[1], counts[2] + 1>>

\* what an EPUB of the directory does to its conversion: it converts, with
\* or without a cover image, its archive cannot be read, or its conversion
\* takes the worker process down
EpubKinds == {"cover", "plain", "corrupt", "kills_worker"}

EpubDirectories ==
  {<<"cover", "corrupt">>, <<"plain", "cover">>, <<"corrupt", "corrupt">>,
   <<"cover", "kills_worker">>, <<"corrupt", "cover", "plain">>}

\* self.free_threading selects the executor; a worker process cannot be lost
\* where there are no worker processes
Batches ==
  {[epub_files |-> epub_files, executor |-> executor, no_image |-> no_image,
    max_workers |-> max_workers] :
     epub_files \in EpubDirectories, executor \in {"thread", "process"},
     no_image \in BOOLEAN, max_workers \in 1..2}
  \ {b \in [epub_files : EpubDirectories, executor : {"thread"},
            no_image : BOOLEAN, max_workers : 1..2] :
       \E i \in 1..Len(b.epub_files) : b.epub_files[i] = "kills_worker"}

epub_files == call[1].epub_files

total_files == Len(epub_files)

\* the EPUBConverter a run works on: the threads of a ThreadPoolExecutor call
\* the bound method of the one converter, a ProcessPoolExecutor pickles the
\* converter for every task
Self(i) == IF call[1].executor = "thread" THEN 0 ELSE i

Finished == {"True", "False", "exception"}

Running == {i \in 1..total_files : run[i].line \notin Finished \cup {"queued"}}

QueuedRun ==
  [line |-> "queued", parser_dir |-> 0, extract_dir |-> 0, cover_read |-> -1]

InitBatch ==
  /\ call \in {<<b>> : b \in Batches}
  /\ ret = <<>>
  /\ PipelineIdle
  /\ batch_pc = "submit"
  /\ run = <<>>
  /\ converter = [o \in 0..total_files |-> [temp_dir |-> 0, cover |-> 0]]
  /\ extracted = {}
  /\ yielded = {}
  /\ completed_count = 0
  /\ failed_count = 0

\* executor.submit for every epub_file
SubmitAll ==
  /\ batch_pc = "submit"
  /\ batch_pc' = "collect"
  /\ run' = [i \in 1..total_files |-> QueuedRun]
  /\ UNCHANGED <<pipelineVars, callVars, converter, extracted, yielded,
                 completed_count, failed_count>>

\* an exception inside convert_single_epub: the with block removes the
\* temporary directory of the run, _convert_single_with_error_handling
\* returns False
RaiseInRun(i) ==
  /\ run' = [run EXCEPT ![i].line = "False"]
  /\ extracted' = extracted \ {i}

\* a worker takes the next task of the queue; with tempfile.TemporaryDirectory
\* and self.temp_dir = Path(temp_dir)
EnterTempDir(i) ==
  /\ batch_pc = "collect"
  /\ run[i].line = "queued"
  /\ \A j \in 1..(i - 1) : run[j].line # "queued"
  /\ Cardinality(Running) < Min(call[1].max_workers, total_files)
  /\ converter' = [converter EXCEPT ![Self(i)].temp_dir = i]
  /\ run' = [run EXCEPT ![i].line = "965"]
  /\ UNCHANGED <<pipelineVars, callVars, batch_pc, extracted, yielded,
                 completed_count, failed_count>>

\* parser = EPUBParser(self.temp_dir)
MakeParser(i) ==
  /\ batch_pc = "collect"
  /\ run[i].line = "965"
  /\ run' = [run EXCEPT ![i].line = "966",
                        ![i].parser_dir = converter[Self(i)].temp_dir]
  /\ UNCHANGED <<pipelineVars, callVars, batch_pc, converter, extracted,
                 yielded, completed_count, failed_count>>

\* extract_dir = self.temp_dir / "extracted"; extract_dir.mkdir(), which
\* raises FileExistsError on a directory that exists
MakeExtractDir(i) ==
  /\ batch_pc = "collect"
  /\ run[i].line = "966"
  /\ LET dir == converter[Self(i)].temp_dir IN
       IF dir \in extracted
       THEN RaiseInRun(i)
       ELSE /\ extracted' = extracted \cup {dir}
            /\ run' = [run EXCEPT ![i].line = "968", ![i].extract_dir = dir]
  /\ UNCHANGED <<pipelineVars, callVars, batch_pc, converter, yielded,
                 completed_count, failed_count>>

\* parser.extract_epub ... parser.find_content_files on extract_dir
ExtractAndParse(i) ==
  /\ batch_pc = "collect"
  /\ run[i].line = "968"
  /\ epub_files[i] # "kills_worker"
  /\ IF epub_files[i] = "corrupt" \/ run[i].extract_dir \notin extracted
     THEN RaiseInRun(i)
     ELSE /\ run' = [run EXCEPT
                       ![i].line = IF call[1].no_image THEN "987" ELSE "1085"]
          /\ UNCHANGED extracted
  /\ UNCHANGED <<pipelineVars, callVars, batch_pc, converter, yielded,
                 completed_count, failed_count>>

\* the worker process ends abruptly: every future that has no result yet
\* gets BrokenProcessPool, and no with block of the lost process is left
LoseWorker(i) ==
  /\ batch_pc = "collect"
  /\ run[i].line = "968"
  /\ epub_files[i] = "kills_worker"
  /\ run' = [j \in 1..total_files |->
               IF run[j].line \in Finished THEN run[j]
               ELSE [run[j] EXCEPT !.line = "exception"]]
  /\ UNCHANGED <<pipelineVars, callVars, batch_pc, converter, extracted,
                 yielded, completed_count, failed_count>>

\* self._detected_cover_filename = None
ResetCover(i) ==
  /\ batch_pc = "collect"
  /\ run[i].line = "987"
  /\ converter' = [converter EXCEPT ![Self(i)].cover = 0]
  /\ run' = [run EXCEPT ![i].line = "988"]
  /\ UNCHANGED <<pipelineVars, callVars, batch_pc, extracted, yielded,
                 completed_count, failed_count>>

\* _generate_expected_path_mapping stores the file name of the cover it meets
GenerateExpectedPathMapping(i) ==
  /\ batch_pc = "collect"
  /\ run[i].line = "988"
  /\ converter' = IF epub_files[i] = "cover"
                  THEN [converter EXCEPT ![Self(i)].cover = i]
                  ELSE converter
  /\ run' = [run EXCEPT ![i].line = "994"]
  /\ UNCHANGED <<pipelineVars, callVars, batch_pc, extracted, yielded,
                 completed_count, failed_count>>

\* metadata['cover_image_url'] from getattr(self, '_detected_cover_filename')
ReadCover(i) ==
  /\ batch_pc = "collect"
  /\ run[i].line = "994"
  /\ run' = [run EXCEPT ![i].line = "1085",
                        ![i].cover_read = converter[Self(i)].cover]
  /\ UNCHANGED <<pipelineVars, callVars, batch_pc, converter, extracted,
                 yielded, completed_count, failed_count>>

\* the chapters are read from extract_dir and index.html is written; the
\* with block ends and _convert_single_with_error_handling returns True
FinishRun(i) ==
  /\ batch_pc = "collect"
  /\ run[i].line = "1085"
  /\ IF run[i].extract_dir \notin extracted
     THEN RaiseInRun(i)
     ELSE /\ run' = [run EXCEPT ![i].line = "True"]
          /\ extracted' = extracted \ {i}
  /\ UNCHANGED <<pipelineVars, callVars, batch_pc, converter, yielded,
                 completed_count, failed_count>>

\* one round of for future in as_completed(future_to_epub)
Collect(i) ==
  /\ batch_pc = "collect"
  /\ i \notin yielded
  /\ run[i].line \in Finished
  /\ yielded' = yielded \cup {i}
  /\ LET counts == CountResult(<<completed_count, failed_count>>, run[i].line)
     IN  completed_count' = counts[1] /\ failed_count' = counts[2]
  /\ UNCHANGED <<pipelineVars, callVars, batch_pc, run, converter, extracted>>

\* as_completed is exhausted, the executor shuts down, the totals are printed
ReturnBatch ==
  /\ batch_pc = "collect"
  /\ yielded = 1..total_files
  /\ batch_pc' = "returned"
  /\ UNCHANGED <<pipelineVars, callVars, run, converter, extracted, yielded,
                 completed_count, failed_count>>

NextBatch ==
  \/ SubmitAll
  \/ \E i \in 1..total_files : EnterTempDir(i)
  \/ \E i \in 1..total_files : MakeParser(i)
  \/ \E i \in 1..total_files : MakeExtractDir(i)
  \/ \E i \in 1..total_files : ExtractAndParse(i)
  \/ \E i \in 1..total_files : LoseWorker(i)
  \/ \E i \in 1..total_files : ResetCover(i)
  \/ \E i \in 1..total_files : GenerateExpectedPathMapping(i)
  \/ \E i \in 1..total_files : ReadCover(i)
  \/ \E i \in 1..total_files : FinishRun(i)
  \/ \E i \in 1..total_files : Collect(i)
  \/ ReturnBatch

SpecBatch == InitBatch /\ [][NextBatch]_vars

\* C13: in directory mode an exception in one conversion does not end the
\* batch: every future yielded so far was counted once, as completed or as
\* failed, and when _convert_parallel returns every EPUB has been attempted
\* and completed_count + failed_count is the number of EPUB files
C13_EveryEpubCountedOnce ==
  batch_pc \in {"collect", "returned"} =>
    /\ completed_count + failed_count = Cardinality(yielded)
    /\ completed_count = Cardinality({i \in yielded : run[i].line = "True"})
    /\ batch_pc = "returned" =>
         /\ \A i \in 1..total_files : run[i].line \in Finished
         /\ yielded = 1..total_files
         /\ completed_count + failed_count = total_files

C13_Witness ==
  /\ batch_pc = "returned"
  /\ completed_count >= 1
  /\ failed_count >= 1
  /\ \E i \in 1..total_files : epub_files[i] = "corrupt" /\ run[i].line = "False"

\* the cover file name a run detects itself
OwnCover(i) == IF epub_files[i] = "cover" THEN i ELSE 0

\* C14: under every interleaving and with either executor, a run hands its
\* own temporary directory to its parser, extracts into its own directory
\* and reads the cover file name it detected itself
C14_RunsShareNoState ==
  batch_pc \in {"collect", "returned"} =>
    \A i \in 1..total_files :
      /\ run[i].parser_dir \in {0, i}
      /\ run[i].extract_dir \in {0, i}
      /\ run[i].cover_read \in {-1, OwnCover(i)}

(***************************************************************************)
(* Functions of EPUBParser applied on their own.  call is the name of the  *)
(* function followed by its arguments.  Directories are written relative   *)
(* to the temporary directory, whose prefix the parsers remove.            *)
(***************************************************************************)

\* urllib.parse.urljoin(base + '/', url) for a url without scheme, authority
\* and query: the path is merged with the base directory, "." segments are
\* dropped and ".." removes the segment before it; the fragment is kept
urljoin(base, url) ==
  LET parts == Split1(url, <<"#">>)
      fragment == IF Len(parts) = 2 THEN <<"#">> \o parts[2] ELSE <<>>
      merged == ResolveFrom(PathComponents(base), PathComponents(parts[1]))
  IN  IF parts[1] = <<>> THEN base \o <<"/">> \o fragment
      ELSE IF PathIsAbsolute(parts[1]) THEN url
      ELSE Join(merged, <<"/">>) \o fragment

\* item['href'] of parse_ol and of parse_navpoint for a link href read with
\* the base directory base_dir
TocItemHref(base_dir, href) == unquote(_clean_toc_href(urljoin(base_dir, href)))

\* the base directory the parser of nav_file is called with by
\* _find_toc_robust: parse_nav_xhtml(nav_file, opf_dir) and
\* parse_ncx_toc(ncx_file, opf_dir)
TocBaseDir(nav_dir, opf_dir) == opf_dir

ExtractedDir == <<"e","x","t","r","a","c","t","e","d">>

OpfDirs == {ExtractedDir, <<"e","x","t","r","a","c","t","e","d","/","O","E","B","P","S">>}

\* the directory of the navigation document below the package directory
NavSubDirs == {<<>>, <<"/","n","a","v">>, <<"/","t","o","c","/","v","3">>}

TocLinkHrefs ==
  {<<"c","h","1",".","x","h","t","m","l">>, <<"c","h","1",".","x","h","t","m","l","#","s","e","c","2">>, <<".",".","/","c","h","1",".","x","h","t","m","l">>, <<"T","e","x","t","/","c","h","1",".","x","h","t","m","l">>,
   <<".","/","c","h","1",".","x","h","t","m","l">>, <<".",".","/","T","e","x","t","/","c","h","%","2","0","1",".","x","h","t","m","l","#","a">>, <<"T","e","x","t","/",".",".","/","c","h","2",".","x","h","t","m","l","#","t","o","p">>,
   <<"c","h","2",".","x","h","t","m","l","#","s","t","a","r","t">>, <<"n","a","v","/","c","h","3",".","x","h","t","m","l">>, <<"#","h","e","r","e">>}

TocHrefCalls ==
  {<<"toc_href", opf_dir, opf_dir \o sub, href>> :
     opf_dir \in OpfDirs, sub \in NavSubDirs, href \in TocLinkHrefs}

\* one link of the navigation document nav_dir/<name>, read by the parser
\* _find_toc_robust calls for the package document opf_dir/<name>
ParseTocLink ==
  /\ call[1] = "toc_href"
  /\ ret = <<>>
  /\ ret' = << TocItemHref(TocBaseDir(call[3], call[2]), call[4]) >>
  /\ UNCHANGED <<pipelineVars, batchVars, call>>

\* C21: the href of a TOC entry is resolved relative to the directory of the
\* navigation document it was read from whenever that directory is not the
\* directory of the package document
C21_HrefRelativeToNavDocument ==
  (call # <<>> /\ call[1] = "toc_href" /\ ret # <<>> /\ call[3] # call[2]) =>
    ret[1] = TocItemHref(call[3], call[4])

(***************************************************************************)
(* _map_toc_to_chapters applied to a TOC of one entry.                     *)
(***************************************************************************)
TocTargetHrefs ==
  {<<"e","x","t","r","a","c","t","e","d","/","T","e","x","t","/","c","h","0","1",".","x","h","t","m","l","#","s","1">>, <<"T","e","x","t","/","c","h","0","1",".","x","h","t","m","l">>, <<"c","h","0","1",".","x","h","t","m","l","#","x">>,
   <<"T","e","x","t","/","a","%","2","0","b",".","x","h","t","m","l","#","f">>, <<"x","/","C","H","1","0",".","x","h","t","m","l">>, <<"x","/","c","h","1","0",".","x","h","t","m","l","#","t","o","p">>, <<"z","z","z",".","x","h","t","m","l">>,
   <<"#","p","a","g","e","0","1">>, <<"n","o","t","e","s",".","x","h","t","m","l","#","n">>, <<"q","/","c","h","0","2",".","x","h","t","m","l">>, <<"e","x","t","r","a","c","t","e","d","/","O","E","B","P","S","/","c","h","0","2",".","x","h","t","m","l","#","s","1">>,
   <<"C","h","0","1",".","X","H","T","M","L","#","s">>, <<"a","%","2","0","b",".","x","h","t","m","l">>, <<"e","x","t","r","a","c","t","e","d","/","a"," ","b",".","x","h","t","m","l","#","k">>, <<"O","E","B","P","S","/","c","h","0","#","z">>}

\* IdentifierMaps: the map of a two-document spine, a map whose keys for the
\* file path and for the bare filename belong to different chapters, a map
\* with a key that is a prefix of another key, and the empty map
TocIdMaps ==
  { <<>>,
    BuildContentIdMapping(<<>>, <<TextCh01, OebpsCh02>>, 1),
    << <<<<"e","x","t","r","a","c","t","e","d","/","T","e","x","t","/","c","h","0","1",".","x","h","t","m","l">>, PageId(3)>>, <<<<"c","h","0","1",".","x","h","t","m","l">>, PageId(1)>>,
       <<<<"T","e","x","t","/","a"," ","b",".","x","h","t","m","l">>, PageId(2)>>, <<<<"n","o","t","e","s">>, PageId(4)>> >>,
    << <<<<"c","h","1">>, PageId(5)>>, <<<<"c","h","1","0",".","x","h","t","m","l">>, PageId(6)>>,
       <<<<"a"," ","b",".","x","h","t","m","l">>, PageId(7)>>, <<<<"T","e","x","t","/","a","%","2","0","b",".","x","h","t","m","l">>, PageId(8)>> >> }

MapTocCalls ==
  {<<"map_toc", href, id_map>> : href \in TocTargetHrefs, id_map \in TocIdMaps}

\* self._map_toc_to_chapters(toc, content_id_mapping) for toc = [item]
MapTocEntry ==
  /\ call[1] = "map_toc"
  /\ ret = <<>>
  /\ ret' = << _map_toc_to_chapters(<< TocItem(<<"O","n","e">>, call[2], <<>>) >>, call[3]) >>
  /\ UNCHANGED <<pipelineVars, batchVars, call>>

\* the text of a TOC target before the first '#'
TargetFilePart(href) ==
  IF Find(href, <<"#">>) = 0 THEN href ELSE SubSeq(href, 1, Find(href, <<"#">>) - 1)

\* the positions of the keys the fuzzy match accepts for a candidate: the
\* lowercased filename or stem contains the lowercased key or is contained in it
FuzzyKeys(candidate, id_map) ==
  {i \in 1..Len(id_map) :
     \E part \in {Lower(PathName(candidate)), Lower(PathStem(candidate))} :
        \/ Contains(part, Lower(id_map[i][1]))
        \/ Contains(Lower(id_map[i][1]), part)}

AnchorOfKey(id_map, key) ==
  id_map[CHOOSE i \in 1..Len(id_map) : id_map[i][1] = key][2]

IsKey(id_map, key) == \E i \in 1..Len(id_map) : id_map[i][1] = key

\* the anchor the four strategies give in their order, <<>> when all fail
ResolvedAnchor(href, id_map) ==
  LET file == TargetFilePart(href)
      fuzzy == FuzzyKeys(file, id_map)
  IN  IF IsKey(id_map, file) THEN AnchorOfKey(id_map, file)
      ELSE IF IsKey(id_map, PathName(file)) THEN AnchorOfKey(id_map, PathName(file))
      ELSE IF IsKey(id_map, unquote(file)) THEN AnchorOfKey(id_map, unquote(file))
      ELSE IF fuzzy # {} THEN id_map[CHOOSE i \in fuzzy : \A j \in fuzzy : i <= j][2]
      ELSE <<>>

\* C22: _map_toc_to_chapters resolves the file part of a target by the
\* verbatim key, then the bare filename, then the percent-decoded form, then
\* the fuzzy match in insertion order; a resolved node gets '#' + anchor and
\* loses its fragment
C22_TocTargetResolutionOrder ==
  (call # <<>> /\ call[1] = "map_toc" /\ ret # <<>>) =>
    LET anchor == ResolvedAnchor(call[2], call[3])
    IN  IF anchor = <<>> THEN ret[1] = <<>>
        ELSE ret[1] = << TocItem(<<"O","n","e">>, <<"#">> \o anchor, <<>>) >>

\* a target with a fragment that only the fuzzy match resolves, with more than
\* one key accepted and the first of them chosen
C22_Witness ==
  /\ call # <<>> /\ call[1] = "map_toc" /\ ret # <<>>
  /\ LET file == TargetFilePart(call[2])
     IN  /\ file # call[2]
         /\ ~IsKey(call[3], file)
         /\ ~IsKey(call[3], PathName(file))
         /\ ~IsKey(call[3], unquote(file))
         /\ Cardinality(FuzzyKeys(file, call[3])) > 1
         /\ Cardinality({call[3][i][2] : i \in FuzzyKeys(file, call[3])}) > 1
         /\ ret[1] # <<>>
         /\ Find(ret[1][1].href, <<"#">>) = 1

\* an href that is internal: no scheme, not protocol-relative, not the path of
\* the static assets
IsInternalHref(s) ==
  /\ ~IsAbsoluteUrl(s)
  /\ ~IsProtocolRelativeUrl(s)
  /\ ~StartsWith(s, <<".","/","s","t","a","t","i","c">>)

\* the opening tag up to the href attribute, without that attribute
TagWithoutHref(tag_start) ==
  Strip(SubSeq(tag_start, 1, RFind(Lower(tag_start), <<"h","r","e","f">>) - 1))

\* C23: after fix_links_and_images an <a> whose href was internal has an href
\* '#' + a chapter anchor of the IdentifierMap, or no href attribute at all
\* and the rest of its opening tag as before
C23_InternalHrefResolvedOrRemoved ==
  (/\ call # <<>>
   /\ ret # <<>>
   /\ IsInternalHref(call[1].href_val)) =>
     \/ \E anchor \in DictValues(call[1].content_id_mapping) :
          ret[1] = call[1].tag_start \o call[1].quote \o <<"#">> \o anchor
                     \o call[1].quote
     \/ ret[1] = TagWithoutHref(call[1].tag_start)

\* C24: an <img> src that no strategy resolves to a value of the PathMapping
\* is written back as it was, and the callback does not raise
C24_UnresolvedSrcKept ==
  (/\ call # <<>>
   /\ ret # <<>>
   /\ ret[1].raised \/ ret[1].src \notin DictValues(call[1].path_mapping)) =>
     ret[1] = [raised |-> FALSE, src |-> call[1].src_val]

(***************************************************************************)
(* _process_content_file.replace_img_tags: the loading hint one <img> tag  *)
(* receives.  A tag is its src value, whether its text contains            *)
(* 'loading=', and whether it contains id="coverimage", class="coverimage" *)
(* or class="cover".                                                       *)
(***************************************************************************)
CoverWord == <<"c","o","v","e","r">>

\* the hint replace_img_tags appends: "eager" (with fetchpriority="high"),
\* "lazy", "none" when the tag has a loading attribute, "raised" when the
\* src callback raised
replace_img_tags(img, content_file_path, mapping, actual_cover) ==
  LET replaced == replace_img_src_in_chapter(img.src_val, content_file_path, mapping)
      image_path == replaced.src
      cover_name == PathName(actual_cover)
      cover_mapped_path ==
        DictFirst(mapping,
                  {i \in 1..Len(mapping) : PathName(mapping[i][1]) = cover_name})
      matches_cover ==
        \/ /\ cover_mapped_path # <<>>
           /\ EndsWith(image_path, cover_mapped_path)
        \/ Contains(Lower(image_path), CoverWord)
        \/ Contains(Lower(cover_name), CoverWord)
      is_cover_image == img.marked_cover \/ (actual_cover # <<>> /\ matches_cover)
  IN  IF replaced.raised THEN "raised"
      ELSE IF img.has_loading THEN "none"
      ELSE IF image_path = <<>> THEN "lazy"
      ELSE IF is_cover_image THEN "eager"
      ELSE "lazy"

ImgTags ==
  [src_val : {<<"I","m","a","g","e","s","/","p","i","c",".","j","p","g">>, <<"I","m","a","g","e","s","/","c","o","v","e","r",".","j","p","g">>, <<".",".","/","I","m","a","g","e","s","/","p","i","c",".","j","p","g">>,
              <<"I","m","a","g","e","s","/","f","r","o","n","t",".","j","p","g">>, <<"m","i","s","s","i","n","g",".","p","n","g">>, <<"I","m","a","g","e","s","/","C","o","v","e","r","_","s","m","a","l","l",".","j","p","g">>,
              <<"h","t","t","p",":","/","/","h","/","p","i","c",".","j","p","g">>},
   has_loading : BOOLEAN, marked_cover : BOOLEAN]

\* the PathMapping of a book with three images, and the same without pic.jpg
CoverPathMappings ==
  { << <<<<"I","m","a","g","e","s","/","c","o","v","e","r",".","j","p","g">>, <<"/","i","m","a","g","e","s","/","x","0","1",".","a","v","i","f">>>>, <<<<"c","o","v","e","r",".","j","p","g">>, <<"/","i","m","a","g","e","s","/","x","0","1",".","a","v","i","f">>>>,
       <<<<"I","m","a","g","e","s","/","p","i","c",".","j","p","g">>, <<"/","i","m","a","g","e","s","/","x","0","2",".","a","v","i","f">>>>, <<<<"p","i","c",".","j","p","g">>, <<"/","i","m","a","g","e","s","/","x","0","2",".","a","v","i","f">>>>,
       <<<<"I","m","a","g","e","s","/","f","r","o","n","t",".","j","p","g">>, <<"/","i","m","a","g","e","s","/","x","0","3",".","a","v","i","f">>>>, <<<<"f","r","o","n","t",".","j","p","g">>, <<"/","i","m","a","g","e","s","/","x","0","3",".","a","v","i","f">>>> >>,
    << <<<<"I","m","a","g","e","s","/","c","o","v","e","r",".","j","p","g">>, <<"/","i","m","a","g","e","s","/","x","0","1",".","a","v","i","f">>>>, <<<<"c","o","v","e","r",".","j","p","g">>, <<"/","i","m","a","g","e","s","/","x","0","1",".","a","v","i","f">>>>,
       <<<<"I","m","a","g","e","s","/","f","r","o","n","t",".","j","p","g">>, <<"/","i","m","a","g","e","s","/","x","0","3",".","a","v","i","f">>>>, <<<<"f","r","o","n","t",".","j","p","g">>, <<"/","i","m","a","g","e","s","/","x","0","3",".","a","v","i","f">>>> >> }

\* metadata['actual_cover_file_path']: None, or the path of the cover file
ActualCovers ==
  {<<>>, <<"/","t","/","e","x","t","r","a","c","t","e","d","/","I","m","a","g","e","s","/","c","o","v","e","r",".","j","p","g">>, <<"/","t","/","e","x","t","r","a","c","t","e","d","/","I","m","a","g","e","s","/","f","r","o","n","t",".","j","p","g">>}

ImgTagCalls ==
  {<<"img_tag", img, content_file_path, mapping, actual_cover>> :
     img \in ImgTags, content_file_path \in {CoverDoc, TextCh01},
     mapping \in CoverPathMappings, actual_cover \in ActualCovers}

\* img_tag_pattern.sub calls replace_img_tags for the match
ReplaceImgTag ==
  /\ call[1] = "img_tag"
  /\ ret = <<>>
  /\ ret' = << replace_img_tags(call[2], call[3], call[4], call[5]) >>
  /\ UNCHANGED <<pipelineVars, batchVars, call>>

\* the src of a tag names the cover: by filename, by stem, or by containing
\* 'cover' when the cover filename contains 'cover' too
SrcIsCover(src, actual_cover) ==
  /\ actual_cover # <<>>
  /\ \/ PathName(src) = PathName(actual_cover)
     \/ PathStem(src) = PathStem(actual_cover)
     \/ /\ Contains(Lower(src), CoverWord)
        /\ Contains(Lower(PathName(actual_cover)), CoverWord)

\* C25: of the images without loading attribute only the cover image gets
\* loading=eager and fetchpriority=high, every other image gets loading=lazy
C25_OnlyCoverEager ==
  (/\ call # <<>> /\ call[1] = "img_tag" /\ ret # <<>>
   /\ ~call[2].has_loading
   /\ ~call[2].marked_cover) =>
     ret[1] = IF SrcIsCover(unquote(call[2].src_val), call[5]) THEN "eager" ELSE "lazy"

(***************************************************************************)
(* find_content_files_fallback.  The directory walk is the sequence of the *)
(* file names in the order os.walk lists them.                             *)
(***************************************************************************)
\* the characters of the file names in code point order
CodePoints == <<"-",".","/","0","1","2","3","4","5","6","7","8","9","_","a","b","c","d","e","f","g","h","i","j","k","l","m","n","o","p","q","r","s","t","u","v","w","x","y","z">>

CodePoint(c) == CHOOSE n \in 1..Len(CodePoints) : CodePoints[n] = c

\* a < b for str
RECURSIVE StrLess(_, _)
StrLess(a, b) ==
  IF b = <<>> THEN FALSE
  ELSE IF a = <<>> THEN TRUE
  ELSE IF a[1] = b[1] THEN StrLess(Tail(a), Tail(b))
  ELSE CodePoint(a[1]) < CodePoint(b[1])

\* the length of the longest prefix of s made of digits (digits = TRUE) or of
\* other characters (digits = FALSE)
RECURSIVE RunLength(_, _)
RunLength(s, digits) ==
  IF s = <<>> \/ ((s[1] \in Digits) # digits) THEN 0
  ELSE 1 + RunLength(Tail(s), digits)

\* filename_digit_pattern.split(s), the pattern being \d+ without a group:
\* the texts between the digit runs, the digit runs themselves are dropped
RECURSIVE DigitSplit(_)
DigitSplit(s) ==
  LET text == RunLength(s, FALSE)
      rest == Drop(s, text + 1)
  IN  IF rest = <<>> THEN << SubSeq(s, 1, text) >>
      ELSE << SubSeq(s, 1, text) >> \o DigitSplit(Drop(rest, RunLength(rest, TRUE) + 1))

\* natural_sort_key(path): no part of the split is a digit string, so every
\* part stays a str
natural_sort_key(name) == DigitSplit(Lower(name))

\* a < b for lists of str
RECURSIVE KeyLess(_, _)
KeyLess(a, b) ==
  IF b = <<>> THEN FALSE
  ELSE IF a = <<>> THEN TRUE
  ELSE IF a[1] = b[1] THEN KeyLess(Tail(a), Tail(b))
  ELSE StrLess(a[1], b[1])

\* sorted(all_content_files, key=natural_sort_key): a stable sort, so a name
\* goes behind the names whose key is not greater
RECURSIVE SortedByNaturalKey(_)
SortedByNaturalKey(files) ==
  IF files = <<>> THEN <<>>
  ELSE LET last == files[Len(files)]
           front == SortedByNaturalKey(SubSeq(files, 1, Len(files) - 1))
           before == {i \in 1..Len(front) :
                        \A j \in 1..i :
                          ~KeyLess(natural_sort_key(last), natural_sort_key(front[j]))}
           n == Cardinality(before)
       IN  SubSeq(front, 1, n) \o <<last>> \o SubSeq(front, n + 1, Len(front))

HtmlSuffixes == {<<".","x","h","t","m","l">>, <<".","h","t","m","l">>, <<".","h","t","m">>}

SkippedWords == {<<"n","a","v">>, <<"t","o","c">>, <<"c","o","v","e","r">>, <<"t","i","t","l","e","p","a","g","e">>}

\* the files the walk keeps, in walk order
RECURSIVE all_content_files(_)
all_content_files(walk) ==
  IF walk = <<>> THEN <<>>
  ELSE (IF /\ \E suffix \in HtmlSuffixes : EndsWith(Lower(walk[1]), suffix)
           /\ \A skip \in SkippedWords : ~Contains(Lower(walk[1]), skip)
        THEN <<walk[1]>> ELSE <<>>) \o all_content_files(Tail(walk))

find_content_files_fallback(walk) == SortedByNaturalKey(all_content_files(walk))

\* the orders in which a directory of three files can be listed
Listings(a, b, c) ==
  {<<a, b, c>>, <<a, c, b>>, <<b, a, c>>, <<b, c, a>>, <<c, a, b>>, <<c, b, a>>}

DirectoryWalks ==
  Listings(<<"c","h","1",".","x","h","t","m","l">>, <<"c","h","2",".","x","h","t","m","l">>, <<"c","h","1","0",".","x","h","t","m","l">>)
    \cup Listings(<<"p","a","r","t","3",".","h","t","m","l">>, <<"n","a","v",".","x","h","t","m","l">>, <<"P","a","r","t","1","2",".","H","T","M">>)
    \cup Listings(<<"b",".","x","h","t","m","l">>, <<"a","_","2",".","x","h","t","m","l">>, <<"s","t","y","l","e",".","c","s","s">>)

FallbackCalls == {<<"fallback", walk>> : walk \in DirectoryWalks}

FindContentFilesFallback ==
  /\ call[1] = "fallback"
  /\ ret = <<>>
  /\ ret' = << find_content_files_fallback(call[2]) >>
  /\ UNCHANGED <<pipelineVars, batchVars, call>>

\* str(n) read back: the number a digit string denotes
RECURSIVE NumberOf(_)
NumberOf(s) ==
  IF s = <<>> THEN 0
  ELSE 10 * NumberOf(SubSeq(s, 1, Len(s) - 1))
         + (CHOOSE n \in 0..9 : DigitChar(n) = s[Len(s)])

\* a comes before b in natural order: the names are compared run by run, a
\* run of digits as a number, any other run as lower-case text
RECURSIVE NaturalLess(_, _)
NaturalLess(a, b) ==
  IF b = <<>> THEN FALSE
  ELSE IF a = <<>> THEN TRUE
  ELSE LET ta == RunLength(a, FALSE)
           tb == RunLength(b, FALSE)
           da == RunLength(Drop(a, ta + 1), TRUE)
           db == RunLength(Drop(b, tb + 1), TRUE)
           na == NumberOf(SubSeq(a, ta + 1, ta + da))
           nb == NumberOf(SubSeq(b, tb + 1, tb + db))
       IN  IF SubSeq(a, 1, ta) # SubSeq(b, 1, tb)
           THEN StrLess(SubSeq(a, 1, ta), SubSeq(b, 1, tb))
           ELSE IF da = 0 \/ db = 0 THEN da < db
           ELSE IF na # nb THEN na < nb
           ELSE NaturalLess(Drop(a, ta + da + 1), Drop(b, tb + db + 1))

\* C26: the directory enumeration returns the HTML-like files in natural
\* order, digit runs compared as numbers, however the walk lists them
C26_FallbackNaturalOrder ==
  (call # <<>> /\ call[1] = "fallback" /\ ret # <<>>) =>
    \A i, j \in 1..Len(ret[1]) :
       i < j => ~NaturalLess(Lower(ret[1][j]), Lower(ret[1][i]))

(***************************************************************************)
(* find_content_files on a package document that ET.parse reads.  A        *)
(* manifest item is [id, href, media_type], media_type = <<>> standing for *)
(* None (no media-type attribute); the spine is the sequence of its        *)
(* idrefs; listing is the files of the package directory in walk order.    *)
(***************************************************************************)
ManifestItem(id, href, media_type) == [id |-> id, href |-> href, media_type |-> media_type]

\* id_to_href[idref]: the last manifest item with that id, <<>> if there is none
IdToHref(manifest, idref) ==
  LET hits == {i \in 1..Len(manifest) : manifest[i].id = idref}
  IN  IF hits = {} THEN <<>>
      ELSE << manifest[CHOOSE i \in hits : \A j \in hits : j <= i] >>

\* 'xhtml' in media_type or 'html' in media_type or
\* href.lower().endswith(('.xhtml', '.html', '.htm'))
IsHtmlItem(item) ==
  \/ Contains(item.media_type, <<"x","h","t","m","l">>)
  \/ Contains(item.media_type, <<"h","t","m","l">>)
  \/ \E suffix \in HtmlSuffixes : EndsWith(Lower(item.href), suffix)

\* the loop over the spine: <<raised, content_files>>; the membership test on
\* a media_type that is None raises TypeError
RECURSIVE SpineLoop(_, _, _, _)
SpineLoop(manifest, spine, listing, hrefs_filtered) ==
  IF spine = <<>> THEN [raised |-> FALSE, files |-> <<>>]
  ELSE LET found == IdToHref(manifest, spine[1])
           rest == SpineLoop(manifest, Tail(spine), listing, hrefs_filtered)
           kept ==
             IF /\ found # <<>>
                /\ IsHtmlItem(found[1])
                /\ ~(hrefs_filtered # <<>>
                       /\ _should_filter_content_file(found[1].href, hrefs_filtered))
                /\ \E k \in 1..Len(listing) : listing[k] = found[1].href
             THEN << <<spine[1], found[1].href>> >>
             ELSE <<>>
       IN  IF found # <<>> /\ found[1].media_type = <<>>
           THEN [raised |-> TRUE, files |-> <<>>]
           ELSE [raised |-> rest.raised, files |-> kept \o rest.files]

\* (None, f) for every file of the directory enumeration
FallbackFiles(listing) ==
  LET files == find_content_files_fallback(listing)
  IN  [k \in 1..Len(files) |-> << <<>>, files[k] >>]

\* find_content_files(opf_file, opf_root, filtered_hrefs) with opf_file given:
\* the except branch answers every exception with the fallback
FindContentFilesOfPackage(manifest, spine, listing, hrefs_filtered) ==
  LET walked == SpineLoop(manifest, spine, listing, hrefs_filtered)
  IN  IF walked.raised THEN FallbackFiles(listing) ELSE walked.files

XhtmlType == <<"a","p","p","l","i","c","a","t","i","o","n","/","x","h","t","m","l","+","x","m","l">>

Manifests ==
  { << ManifestItem(<<"c","1">>, <<"c","h","1",".","x","h","t","m","l">>, XhtmlType),
       ManifestItem(<<"c","2">>, <<"c","h","2",".","x","h","t","m","l">>, XhtmlType),
       ManifestItem(<<"c","3">>, <<"c","h","1","0",".","h","t","m","l">>, <<"t","e","x","t","/","p","l","a","i","n">>),
       ManifestItem(<<"i","1">>, <<"p","i","c",".","j","p","g">>, <<"i","m","a","g","e","/","j","p","e","g">>) >>,
    << ManifestItem(<<"c","1">>, <<"c","h","1",".","x","h","t","m","l">>, XhtmlType),
       ManifestItem(<<"c","2">>, <<"c","h","2",".","x","h","t","m","l">>, <<"t","e","x","t","/","h","t","m","l">>),
       ManifestItem(<<"c","4">>, <<"n","o","t","e","s",".","x","h","t","m","l">>, <<>>),
       ManifestItem(<<"i","1">>, <<"p","i","c",".","j","p","g">>, <<"i","m","a","g","e","/","j","p","e","g">>) >> }

SpineIdrefs ==
  { << <<"c","1">>, <<"c","2">>, <<"c","3">> >>, << <<"c","2">>, <<"i","1">>, <<"c","1">> >>, << <<"c","3">>, <<"z","z">>, <<"c","2">>, <<"c","1">> >>,
    << <<"c","2">>, <<"c","1">>, <<"c","4">> >>, << <<"c","1">>, <<"c","1">> >>, <<>> }

PackageListings ==
  { << <<"c","h","1","0",".","h","t","m","l">>, <<"c","h","1",".","x","h","t","m","l">>, <<"c","h","2",".","x","h","t","m","l">>, <<"n","o","t","e","s",".","x","h","t","m","l">>, <<"p","i","c",".","j","p","g">> >>,
    << <<"p","i","c",".","j","p","g">>, <<"n","o","t","e","s",".","x","h","t","m","l">>, <<"c","h","1",".","x","h","t","m","l">>, <<"c","h","1","0",".","h","t","m","l">> >> }

FilteredHrefLists ==
  { <<>>, << <<"e","x","t","r","a","c","t","e","d","/","c","h","2",".","x","h","t","m","l">> >>, << <<"e","x","t","r","a","c","t","e","d","/","T","e","x","t","/","C","H","1",".","h","t","m","l">> >> }

ContentFilesCalls ==
  {<<"content_files", manifest, spine, listing, hrefs_filtered>> :
     manifest \in Manifests, spine \in SpineIdrefs, listing \in PackageListings,
     hrefs_filtered \in FilteredHrefLists}

FindContentFilesInPackage ==
  /\ call[1] = "content_files"
  /\ ret = <<>>
  /\ ret' = << FindContentFilesOfPackage(call[2], call[3], call[4], call[5]) >>
  /\ UNCHANGED <<pipelineVars, batchVars, call>>

\* the itemref at position k of the spine is to be returned: its idref names
\* a manifest item that is (X)HTML by media type or by extension, whose href
\* matches no filtered href by path, filename or stem, and whose file exists
SpineEntryKept(manifest, spine, listing, hrefs_filtered, k) ==
  \E i \in 1..Len(manifest) :
    /\ manifest[i].id = spine[k]
    /\ \/ Contains(manifest[i].media_type, <<"h","t","m","l">>)
       \/ \E suffix \in HtmlSuffixes : EndsWith(Lower(manifest[i].href), suffix)
    /\ \A f \in 1..Len(hrefs_filtered) :
         /\ Lower(manifest[i].href) # Lower(hrefs_filtered[f])
         /\ Lower(PathName(manifest[i].href)) # Lower(PathName(hrefs_filtered[f]))
         /\ Lower(PathStem(manifest[i].href)) # Lower(PathStem(hrefs_filtered[f]))
    /\ \E l \in 1..Len(listing) : listing[l] = manifest[i].href

\* C27: with a package document that parses, find_content_files returns in
\* spine order exactly the itemrefs that resolve to an (X)HTML item, are not
\* filtered and exist
C27_SpineOrderExactly ==
  (call # <<>> /\ call[1] = "content_files" /\ ret # <<>>) =>
    LET kept == {k \in 1..Len(call[3]) :
                   SpineEntryKept(call[2], call[3], call[4], call[5], k)}
    IN  /\ Len(ret[1]) = Cardinality(kept)
        /\ \A n \in 1..Len(ret[1]) :
             \E k \in kept :
               /\ Cardinality({m \in kept : m <= k}) = n
               /\ ret[1][n][1] = call[3][k]

(***************************************************************************)
(* find_and_parse_toc: the book metadata read from the package document.   *)
(* A package document is [parses, metadata, manifest]: metadata and        *)
(* manifest are <<>> when root.find returns None, else a one-element       *)
(* sequence.  An element with text is <<text>> (text = <<>> for None), a   *)
(* missing element is <<>>.  The cover marker is [content, children]; a    *)
(* manifest is a sequence of ManifestItem.  book_meta is a dict; the       *)
(* keys description, publisher, date, subject and language are left out.   *)
(***************************************************************************)
Untitled == <<"U","n","t","i","t","l","e","d">>

UnknownAuthor == <<"U","n","k","n","o","w","n"," ","A","u","t","h","o","r">>

\* if elem is not None and elem.text: book_meta[key] = elem.text.strip()
ElemTextOr(elem, default) ==
  IF elem # <<>> /\ elem[1] # <<>> THEN Strip(elem[1]) ELSE default

\* bool(element) of xml.etree.ElementTree: an element is true when it has
\* children
ElementIsTrue(elem) == elem.children > 0

\* (metadata.find('.//opf:meta[@name="cover"]') or ET.Element('meta')).get('content')
CoverId(cover) ==
  IF cover # <<>> /\ ElementIsTrue(cover[1]) THEN cover[1].content ELSE <<>>

\* manifest.find(".//opf:item[@id='<cover_id>']"): the first such item
FirstItemWithId(manifest, id) ==
  LET hits == {i \in 1..Len(manifest) : manifest[i].id = id}
  IN  IF hits = {} THEN <<>>
      ELSE << manifest[CHOOSE i \in hits : \A j \in hits : i <= j] >>

\* (opf_dir / unquote(cover_href)).resolve().relative_to(opf_root).as_posix(),
\* the name of the file on ValueError; opf_dir as components below opf_root
CoverPathOf(opf_dir, cover_href) ==
  LET resolved == ResolveFrom(opf_dir, PathComponents(unquote(cover_href)))
  IN  IF resolved = Outside \/ PathIsAbsolute(unquote(cover_href))
      THEN PathName(unquote(cover_href))
      ELSE AsPosix(resolved)

\* book_meta['cover_image_path'] after the cover block
CoverImagePath(cover, manifest, opf_dir) ==
  LET cover_id == CoverId(cover)
      cover_item == FirstItemWithId(manifest, cover_id)
  IN  IF cover_id # <<>> /\ cover_item # <<>> /\ cover_item[1].href # <<>>
      THEN CoverPathOf(opf_dir, cover_item[1].href)
      ELSE <<>>

\* the second value find_and_parse_toc returns and the return statement that
\* returns it: ET.parse raising, metadata.find on None and manifest.find on
\* None all end in the except clause, which returns [], {}, []
BookMetaReturned(opf, opf_dir, toc_found) ==
  IF ~opf.parses \/ opf.metadata = <<>> \/ opf.manifest = <<>>
  THEN [path |-> "except", book_meta |-> <<>>]
  ELSE [path |-> IF toc_found THEN "toc" ELSE "no_toc",
        book_meta |->
          << <<<<"t","i","t","l","e">>, ElemTextOr(opf.metadata[1].title, Untitled)>>,
             <<<<"a","u","t","h","o","r">>, ElemTextOr(opf.metadata[1].creator, UnknownAuthor)>>,
             <<<<"c","o","v","e","r","_","i","m","a","g","e","_","p","a","t","h">>,
               CoverImagePath(opf.metadata[1].cover, opf.manifest[1], opf_dir)>> >>]

JpegType == <<"i","m","a","g","e","/","j","p","e","g">>

CoverMarkers ==
  {<<>>,
   <<[content |-> <<"c","o","v">>, children |-> 0]>>,
   <<[content |-> <<"c","o","v">>, children |-> 1]>>,
   <<[content |-> <<"n","o","p","e">>, children |-> 0]>>,
   <<[content |-> <<>>, children |-> 0]>>}

MetadataElements ==
  {<<[title |-> t, creator |-> c, cover |-> m]>> :
     t \in {<<>>, << <<>> >>, << <<" ","M","y"," ","B","o","o","k"," ">> >>, << <<"T">> >>},
     c \in {<<>>, << <<"A","."," ","W","r","i","t","e","r">> >>, << <<" ">> >>},
     m \in CoverMarkers}

CoverManifests ==
  {<< <<ManifestItem(<<"c","o","v">>, <<"I","m","a","g","e","s","/","c","o","v","e","r",".","j","p","g">>, JpegType),
        ManifestItem(<<"c","1">>, <<"c","h","1",".","x","h","t","m","l">>, XhtmlType)>> >>,
   << <<ManifestItem(<<"c","1">>, <<"c","h","1",".","x","h","t","m","l">>, XhtmlType),
        ManifestItem(<<"c","o","v">>, <<".",".","/","c","o","v","e","r","%","2","0","a","r","t",".","j","p","g">>, JpegType)>> >>,
   << <<ManifestItem(<<"c","o","v">>, <<".",".","/",".",".","/","f","r","o","n","t",".","p","n","g">>, JpegType)>> >>,
   << <<ManifestItem(<<"c","1">>, <<"c","h","1",".","x","h","t","m","l">>, XhtmlType)>> >>}

PackageDocuments ==
  {[parses |-> FALSE, metadata |-> <<>>, manifest |-> <<>>]}
  \cup {[parses |-> TRUE, metadata |-> <<>>, manifest |-> m] : m \in CoverManifests}
  \cup {[parses |-> TRUE, metadata |-> e, manifest |-> <<>>] : e \in MetadataElements}
  \cup {[parses |-> TRUE, metadata |-> e, manifest |-> m] :
          e \in MetadataElements, m \in CoverManifests}

\* opf_file.parent below opf_root
PackageDirs == {<<>>, << <<"O","E","B","P","S">> >>}

MetadataCalls ==
  {<<"metadata", opf, opf_dir, toc_found>> :
     opf \in PackageDocuments, opf_dir \in PackageDirs, toc_found \in BOOLEAN}

ReadBookMeta ==
  /\ call[1] = "metadata"
  /\ ret = <<>>
  /\ ret' = << BookMetaReturned(call[2], call[3], call[4]) >>
  /\ UNCHANGED <<pipelineVars, batchVars, call>>

\* the manifest item the cover marker of the package document opf names
MarkedCoverItem(opf) ==
  IF opf.parses /\ opf.metadata # <<>> /\ opf.manifest # <<>>
       /\ opf.metadata[1].cover # <<>>
       /\ opf.metadata[1].cover[1].content # <<>>
  THEN FirstItemWithId(opf.manifest[1], opf.metadata[1].cover[1].content)
  ELSE <<>>

\* C28: when the metadata has a cover marker whose content is the id of a
\* manifest item, the returned cover_image_path is that item's href resolved
\* against the package directory, relative to the extraction root
C28_CoverMarkerSetsCoverPath ==
  (call # <<>> /\ call[1] = "metadata" /\ ret # <<>>
     /\ MarkedCoverItem(call[2]) # <<>>) =>
    DictGet(ret[1].book_meta, <<"c","o","v","e","r","_","i","m","a","g","e","_","p","a","t","h">>)
      = CoverPathOf(call[3], MarkedCoverItem(call[2])[1].href)

\* C29: every return of find_and_parse_toc for a package document carries a
\* title and an author, the package's when it has them and the defaults
\* 'Untitled' and 'Unknown Author' otherwise
C29_TitleAndAuthorAlways ==
  (call # <<>> /\ call[1] = "metadata" /\ ret # <<>>) =>
    LET e == IF call[2].parses /\ call[2].metadata # <<>>
             THEN call[2].metadata[1]
             ELSE [title |-> <<>>, creator |-> <<>>, cover |-> <<>>]
    IN  /\ DictHas(ret[1].book_meta, <<"t","i","t","l","e">>)
        /\ DictHas(ret[1].book_meta, <<"a","u","t","h","o","r">>)
        /\ DictGet(ret[1].book_meta, <<"t","i","t","l","e">>) = ElemTextOr(e.title, Untitled)
        /\ DictGet(ret[1].book_meta, <<"a","u","t","h","o","r">>) = ElemTextOr(e.creator, UnknownAuthor)

\* the outputs that change nothing of the fragment items but its anchor tags:
\* an opening tag without href is kept or becomes a span, </a> is kept or
\* becomes </span>, and the </a> that closes an anchor with href is kept;
\* open holds, for every open anchor, whether it has an href
RECURSIVE AnchorFrames(_, _)
AnchorFrames(items, open) ==
  IF items = <<>> THEN {<<>>}
  ELSE IF items[1] = BookmarkOpen
  THEN {tag \o rest : tag \in {BookmarkOpen, AnchorToSpan(BookmarkOpen)},
                      rest \in AnchorFrames(Tail(items), Append(open, FALSE))}
  ELSE IF items[1] = LinkOpen
  THEN {LinkOpen \o rest : rest \in AnchorFrames(Tail(items), Append(open, TRUE))}
  ELSE IF items[1] = AnchorClose
  THEN IF open = <<>>
       THEN {tag \o rest : tag \in {AnchorClose, <<"<","/","s","p","a","n",">">>},
                           rest \in AnchorFrames(Tail(items), open)}
       ELSE {tag \o rest :
               tag \in IF open[Len(open)] THEN {AnchorClose}
                       ELSE {AnchorClose, <<"<","/","s","p","a","n",">">>},
               rest \in AnchorFrames(Tail(items), SubSeq(open, 1, Len(open) - 1))}
  ELSE {items[1] \o rest : rest \in AnchorFrames(Tail(items), open)}

\* C30: _fix_fake_anchors changes only <a ...> and </a> tags; every other
\* element and all text, also an element such as <abbr> right after an anchor
\* tag, is unchanged in the output, and the </a> paired with an anchor that
\* has an href stays </a>
C30_OnlyAnchorTagsChange ==
  ret # <<>> => ret[1] \in AnchorFrames(call[1].items, <<>>)

(***************************************************************************)
(* The functions of the parser and of the converter called on their own:   *)
(* one call, drawn from the inputs above, and its return.                   *)
(***************************************************************************)
InitFunctions ==
  /\ PipelineIdle
  /\ BatchIdle
  /\ call \in TocHrefCalls \cup MapTocCalls \cup ImgTagCalls \cup FallbackCalls
                \cup ContentFilesCalls \cup MetadataCalls
  /\ ret = <<>>

NextFunctions ==
  \/ ParseTocLink
  \/ MapTocEntry
  \/ ReplaceImgTag
  \/ FindContentFilesFallback
  \/ FindContentFilesInPackage
  \/ ReadBookMeta

SpecFunctions == InitFunctions /\ [][NextFunctions]_vars

=============================================================================
